---- MODULE Spec2Model ----
(***************************************************************************)
(* Model of the ksystemstats daemon core: the registry of containers,      *)
(* objects and sensor properties (Daemon), the per-consumer subscription   *)
(* bookkeeping (Client) and the tick that refreshes the providers and      *)
(* flushes every client.                                                   *)
(*                                                                         *)
(* Strings are sequences of one-character strings, so that the index       *)
(* arithmetic of Daemon::findSensor is computed as the code computes it.   *)
(* A QHash is a function with a finite domain; the SensorInfoMap that is   *)
(* sent over the bus is an association list with an explicit upsert.       *)
(***************************************************************************)
EXTENDS Integers, Sequences, FiniteSets, TLC

VARIABLES
    m_providers,              \* Daemon::m_providers, in registration order
    m_containers,             \* Daemon::m_containers: container id -> container
    sensorObjects,            \* objects currently held by their container
    value,                    \* SensorProperty value, per sensor
    info,                     \* SensorProperty info (metadata), per sensor
    subscribers,              \* SensorProperty subscriber refcount, per sensor
    m_clients,                \* Daemon::m_clients: the services that have a Client
    m_subscribedSensors,      \* per Client: path -> sensor
    m_connections,            \* per Client: sensor -> number of stored connection sets
    attached,                 \* per Client: sensor -> number of connected listener sets
    m_pendingUpdates,         \* per Client: sequence of <<path, value>>
    m_pendingMetaDataChanges, \* per Client: association list of <<path, info>>
    outbox,                   \* per Client: the bus messages the last handler sent to it
    reply,                    \* the value the last handler returned to its caller (Daemon::sensorData)
    tick,                     \* history: the steps of the last handler when it was the tick, in order
    flushed,                  \* history: per Client, the three histories below as the last handler flushed them
    noted,                    \* history: valid value notifications of subscribed sensors since the last flush
    notedInfo,                \* history: per path, the last change of a sensor's info since the last flush,
                              \*          whether the Client was subscribed then, and whether there were several
    lastOp,                   \* history: the handler that ran last, with its inputs
    plugin,                   \* the private members of the plugin of the scenario
    m_quitOnLastClientDisconnect, \* Daemon::m_quitOnLastClientDisconnect
    quitRequested,            \* the last handler called QCoreApplication::quit()
    emitted                   \* the sensorAdded / sensorRemoved signals the last handler made the Daemon emit

vars == <<m_providers, m_containers, sensorObjects, value, info, subscribers,
          m_clients, m_subscribedSensors, m_connections, attached,
          m_pendingUpdates, m_pendingMetaDataChanges, outbox, reply, tick,
          flushed, noted, notedInfo, lastOp, plugin, emitted,
          m_quitOnLastClientDisconnect, quitRequested>>

-----------------------------------------------------------------------------
(* Bounds *)

MaxPending == 2       \* longest list of pending value updates explored
MaxSubs == 2          \* most listener sets one Client attaches to one sensor
MaxBatch == 2         \* longest path list of one subscribe / unsubscribe call
MaxProbe == 4         \* longest arbitrary path handed to findSensor
MaxUpd == 1           \* most setValue calls the providers make in one tick
MaxRequest == 2       \* longest path list of one sensorData call
MaxJobs == 1          \* most free-space jobs of one volume in flight
MaxBackends == 4      \* most backend creation functions compiled into the network plugin
MaxPolls == 2         \* most update() calls of a plugin the scenario counts
MaxVolumes == 3       \* most VolumeObjects the disks plugin creates in the device scenario

-----------------------------------------------------------------------------
(* QString operations used by Daemon::findSensor; indices are 0-based as in Qt *)

NULL == <<>>           \* the null SensorProperty pointer
NoObject == "none"    \* the null SensorObject pointer
NoValue == 0          \* the invalid QVariant of a sensor that has no value yet

Slash == "/"

RECURSIVE IndexFrom(_, _, _)
IndexFrom(s, ch, i) ==
    IF i > Len(s) THEN -1
    ELSE IF s[i] = ch THEN i - 1
    ELSE IndexFrom(s, ch, i + 1)

indexOf(s, ch) == IndexFrom(s, ch, 1)

RECURSIVE LastIndexFrom(_, _, _)
LastIndexFrom(s, ch, i) ==
    IF i < 1 THEN -1
    ELSE IF s[i] = ch THEN i - 1
    ELSE LastIndexFrom(s, ch, i - 1)

lastIndexOf(s, ch) == LastIndexFrom(s, ch, Len(s))

\* QString::left(n): the whole string when n is negative or not less than the size
left(s, n) == IF n < 0 \/ n >= Len(s) THEN s ELSE SubSeq(s, 1, n)

\* QString::mid(position, n) for position >= 0: empty past the end, and
\* everything from position when n is negative or exceeds what is left
mid(s, position, n) ==
    IF position > Len(s) THEN <<>>
    ELSE LET avail == Len(s) - position
             len == IF n < 0 \/ n > avail THEN avail ELSE n
         IN SubSeq(s, position + 1, position + len)

Cat(a, b) == a \o <<Slash>> \o b

-----------------------------------------------------------------------------
(* The providers, containers, objects and properties that can exist *)

\* P1 is the provider of the scenarios below; P2 is a provider of another name
\* whose container has the id of P1's container; P3 has the name of P1; P4 is
\* the disks plugin, P5 the gpu plugin
Providers == {"P1"}
providerName(p) ==
    CASE p = "P2" -> <<"e">>
      [] p = "P4" -> <<"d", "i", "s", "k", "s">>
      [] p = "P5" -> <<"g", "p", "u">>
      [] OTHER -> <<"d">>

containersOf(p) ==
    CASE p = "P1" -> <<"K1">>
      [] p = "P2" -> <<"K2">>
      [] p = "P3" -> <<"K3">>
      [] p = "P4" -> <<"K4">>
      [] p = "P5" -> <<"K5">>

ContainerProvider(k) ==
    CASE k = "K1" -> "P1"
      [] k = "K2" -> "P2"
      [] k = "K3" -> "P3"
      [] k = "K4" -> "P4"
      [] k = "K5" -> "P5"

ContainerId(k) ==
    CASE k = "K3" -> <<"f">>
      [] k = "K4" -> <<"d", "i", "s", "k">>
      [] k = "K5" -> <<"g", "p", "u">>
      [] OTHER -> <<"d">>

\* object instances (pointers); ObjectsCore are those of the dispatch scenarios,
\* ObjectsPath those of the path-resolution scenario
ObjectsCore == {"O1", "O2"}
ObjectsPath == {"O1", "O3", "O4"}

\* the objects of the disks plugin: a VolumeObject per mounted volume, whose id
\* is the uuid or the label of the volume, and the object "all" of the
\* aggregate sensors
DiskVolumes == {"sda1", "sdb1", "sdc1", "allx"}
AllDisks == "all"
DiskObjects == DiskVolumes \cup {AllDisks}

\* the Intel GPU device of the gpu plugin
IntelGpu == "gpu0"

ObjectContainer(o) ==
    IF o \in DiskObjects THEN "K4" ELSE IF o = IntelGpu THEN "K5" ELSE "K1"

ObjectId(o) ==
    CASE o = "O1" -> <<"x">>
      [] o = "O2" -> <<"y">>
      [] o = "O3" -> <<"n">>
      [] o = "O4" -> <<"x", "/", "n">>
      [] o = "sda1" -> <<"s", "d", "a", "1">>
      [] o = "sdb1" -> <<"s", "d", "b", "1">>
      [] o = "sdc1" -> <<"s", "d", "c", "1">>
      [] o = "allx" -> <<"a", "l", "l", "x">>
      [] o = AllDisks -> <<"a", "l", "l">>
      [] o = IntelGpu -> <<"g", "p", "u", "0">>

\* the ids of the properties of the disks plugin that the scenarios touch
PropName == <<"n", "a", "m", "e">>
PropTotal == <<"t", "o", "t", "a", "l">>
PropUsed == <<"u", "s", "e", "d">>
PropFree == <<"f", "r", "e", "e">>
PropUsedPercent == <<"u", "s", "e", "d", "P", "e", "r", "c", "e", "n", "t">>
PropRead == <<"r", "e", "a", "d">>
PropWrite == <<"w", "r", "i", "t", "e">>

\* the ids of the two properties of a GPU device that LinuxIntelGpu sets
PropUsage == <<"u", "s", "a", "g", "e">>
PropCoreFrequency == <<"c", "o", "r", "e", "F", "r", "e", "q", "u", "e", "n", "c", "y">>

ObjectProps(o) ==
    CASE o = "O1" -> {<<"t">>}
      [] o = "O2" -> {<<"t">>}
      [] o = "O3" -> {<<"n">>}
      [] o = "O4" -> {<<"t">>}
      [] o \in DiskVolumes -> {PropName, PropTotal, PropUsed, PropFree, PropRead, PropWrite}
      [] o = AllDisks -> {PropTotal, PropUsed, PropFree, PropUsedPercent}
      [] o = IntelGpu -> {PropUsage, PropCoreFrequency}

SensorsOf(o) == {<<o, p>> : p \in ObjectProps(o)}

\* SensorObject::path and SensorProperty::path
ObjectPath(o) == Cat(ContainerId(ObjectContainer(o)), ObjectId(o))
Path(s) == Cat(ObjectPath(s[1]), s[2])

\* the sensors and the service names of the scenario a behaviour starts in
Sensors == DOMAIN value
Services == DOMAIN attached

Values == {1, 2}
Infos == {1, 2}

-----------------------------------------------------------------------------
(* Small helpers *)

Range(f) == {f[x] : x \in DOMAIN f}

Put(f, k, v) == [x \in (DOMAIN f) \cup {k} |-> IF x = k THEN v ELSE f[x]]

Drop(f, k) == [x \in (DOMAIN f) \ {k} |-> f[x]]

Repeat(n, e) == [i \in 1..n |-> e]

EmptyMap == <<>>

KeysOf(al) == {al[i][1] : i \in 1..Len(al)}

\* QHash::operator[] = on the association list: replace the entry of the key, or add one
Upsert(al, k, v) ==
    IF k \in KeysOf(al)
    THEN [i \in 1..Len(al) |-> IF al[i][1] = k THEN <<k, v>> ELSE al[i]]
    ELSE Append(al, <<k, v>>)

RECURSIVE IsSubseq(_, _)
IsSubseq(a, b) ==
    IF a = <<>> THEN TRUE
    ELSE IF b = <<>> THEN FALSE
    ELSE IF Head(a) = Head(b) THEN IsSubseq(Tail(a), Tail(b))
    ELSE IsSubseq(a, Tail(b))

SeqsUpTo(S, n) == UNION {[1..k -> S] : k \in 0..n}

-----------------------------------------------------------------------------
(* Daemon::findSensor *)

\* SensorContainer::object(id), on the objects the container holds
objectOf(k, id) ==
    LET os == {o \in sensorObjects : ObjectContainer(o) = k /\ ObjectId(o) = id}
    IN IF os = {} THEN NoObject ELSE CHOOSE o \in os : TRUE

\* SensorObject::sensor(id)
sensorOf(o, id) == IF id \in ObjectProps(o) THEN <<o, id>> ELSE NULL

findSensor_firstSlash(path) ==
    LET subsystemIndex == indexOf(path, Slash)
        rest == mid(path, subsystemIndex + 1, -1)
        objectLen == indexOf(rest, Slash)
        subsystem == left(path, subsystemIndex)
        object == left(rest, objectLen)
        property == mid(rest, objectLen + 1, -1)
    IN IF subsystem \notin DOMAIN m_containers THEN NULL
       ELSE LET o == objectOf(m_containers[subsystem], object)
            IN IF o = NoObject THEN NULL ELSE sensorOf(o, property)

findSensor(path) ==
    LET subsystemIndex == indexOf(path, Slash)
        propertyIndex == lastIndexOf(path, Slash)
        subsystem == left(path, subsystemIndex)
        object == mid(path, subsystemIndex + 1, propertyIndex - (subsystemIndex + 1))
        property == mid(path, propertyIndex + 1, -1)
    IN IF subsystem \notin DOMAIN m_containers THEN NULL
       ELSE LET o == objectOf(m_containers[subsystem], object)
            IN IF o = NoObject THEN NULL ELSE sensorOf(o, property)

\* the sensors a path walk of the registry reaches (Daemon::allSensors)
RegisteredSensors ==
    UNION {SensorsOf(o) : o \in {x \in sensorObjects : ObjectContainer(x) \in Range(m_containers)}}

-----------------------------------------------------------------------------
(* Client *)

Zero == [s \in Sensors |-> 0]

\* the part of the state one Client's subscribe / unsubscribe works on
ClientState(c) ==
    [sub |-> m_subscribedSensors[c], conn |-> m_connections[c],
     att |-> attached[c], refs |-> subscribers]

\* one iteration of the loop of Client::subscribeSensors
subscribeSensor(st, sensorPath) ==
    LET sensor == findSensor(sensorPath)
    IN IF sensor = NULL THEN st
       ELSE [sub |-> Put(st.sub, sensorPath, sensor),
             conn |-> [st.conn EXCEPT ![sensor] = @ + 1],
             att |-> [st.att EXCEPT ![sensor] = @ + 1],
             refs |-> [st.refs EXCEPT ![sensor] = @ + 1]]

RECURSIVE subscribeSensors_stopAtUnknown(_, _)
subscribeSensors_stopAtUnknown(st, sensorPaths) ==
    IF sensorPaths = <<>> THEN st
    ELSE IF findSensor(Head(sensorPaths)) = NULL THEN st
    ELSE subscribeSensors_stopAtUnknown(subscribeSensor(st, Head(sensorPaths)),
                                        Tail(sensorPaths))

RECURSIVE subscribeSensors(_, _)
subscribeSensors(st, sensorPaths) ==
    IF sensorPaths = <<>> THEN st
    ELSE subscribeSensors(subscribeSensor(st, Head(sensorPaths)), Tail(sensorPaths))

unsubscribeSensor_unchecked(st, sensorPath) ==
    LET sensor == findSensor(sensorPath)
    IN IF sensor = NULL THEN st
       ELSE [sub |-> Drop(st.sub, sensorPath),
             conn |-> st.conn,
             att |-> st.att,
             refs |-> [st.refs EXCEPT ![sensor] = IF @ > 0 THEN @ - 1 ELSE @]]

\* one iteration of the loop of Client::unsubscribeSensors
unsubscribeSensor(st, sensorPath) ==
    IF sensorPath \notin DOMAIN st.sub THEN st
    ELSE LET sensor == st.sub[sensorPath]
             has == st.conn[sensor] > 0
         IN [sub |-> Drop(st.sub, sensorPath),
             conn |-> [st.conn EXCEPT ![sensor] = IF has THEN @ - 1 ELSE @],
             att |-> [st.att EXCEPT ![sensor] = IF has THEN @ - 1 ELSE @],
             refs |-> [st.refs EXCEPT ![sensor] = @ - 1]]

RECURSIVE unsubscribeSensors(_, _)
unsubscribeSensors(st, sensorPaths) ==
    IF sensorPaths = <<>> THEN st
    ELSE unsubscribeSensors(unsubscribeSensor(st, Head(sensorPaths)), Tail(sensorPaths))

valueChanged_prepend(pend, s, v) ==
    [c \in Services |->
        IF v = NoValue THEN pend[c]
        ELSE Repeat(attached[c][s], <<Path(s), v>>) \o pend[c]]

\* the valueChanged listeners of every Client, run for one emission of sensor s
\* whose value is v
valueChanged(pend, s, v) ==
    [c \in Services |->
        IF v = NoValue THEN pend[c]
        ELSE pend[c] \o Repeat(attached[c][s], <<Path(s), v>>)]

IsSubscribed(c, s) == s \in Range(m_subscribedSensors[c])

\* SensorProperty::setValue on the record r of sensor values, pending updates and
\* the histories of notifications
setValue(r, s, v) ==
    [value |-> [r.value EXCEPT ![s] = v],
     pend |-> valueChanged(r.pend, s, v),
     noted |-> [c \in Services |->
                  IF v # NoValue /\ IsSubscribed(c, s)
                  THEN Append(r.noted[c], <<Path(s), v>>) ELSE r.noted[c]]]

RECURSIVE setValues(_, _)
setValues(r, upd) ==
    IF upd = <<>> THEN r
    ELSE setValues(setValue(r, Head(upd)[1], Head(upd)[2]), Tail(upd))

ValueState ==
    [value |-> value, pend |-> m_pendingUpdates, noted |-> noted]

sensorInfoChanged_append(meta, s, i) ==
    [c \in Services |->
        IF attached[c][s] > 0 THEN Append(meta[c], <<Path(s), i>>) ELSE meta[c]]

\* the sensorInfoChanged listeners of every Client
sensorInfoChanged(meta, s, i) ==
    [c \in Services |->
        IF attached[c][s] > 0 THEN Upsert(meta[c], Path(s), i) ELSE meta[c]]

sendValues_unchecked(entries) ==
    <<[signal |-> "newSensorData", payload |-> entries]>>

\* Client::sendValues and Client::sendMetaDataChanged: the messages put on the bus
sendValues(entries) ==
    IF entries = <<>> THEN <<>>
    ELSE <<[signal |-> "newSensorData", payload |-> entries]>>

sendMetaDataChanged(sensors) ==
    IF sensors = <<>> THEN <<>>
    ELSE <<[signal |-> "sensorMetaDataChanged", payload |-> sensors]>>

\* Client::sendFrame: what one Client sends
clientSendFrame(meta, pend) == sendMetaDataChanged(meta) \o sendValues(pend)

-----------------------------------------------------------------------------
(* Initial state: the Daemon as constructed, no provider loaded, no client *)

Op(name, c, paths) == [op |-> name, client |-> c, paths |-> paths]

NoMessages == [c \in Services |-> <<>>]
NoHistory == [noted |-> <<>>, info |-> EmptyMap]
NoFlush == [c \in Services |-> NoHistory]

NoReply == <<>>
NoTick == <<>>

\* a plugin without private members
NoPlugin == <<>>

\* no sensorAdded and no sensorRemoved signal
NoSignals == {}

\* nothing is sent to a Client, answered or polled
Mute == outbox' = NoMessages /\ flushed' = NoFlush /\ reply' = NoReply /\ tick' = NoTick

\* the handler does not ask the application to quit and leaves the option alone
NoQuit == quitRequested' = FALSE /\ UNCHANGED m_quitOnLastClientDisconnect

\* a handler that sends nothing, returns nothing, is not the tick and does not quit
Silent == Mute /\ emitted' = NoSignals /\ NoQuit

\* the same for a handler outside the plugins, which touches no member of them
Quiet == Silent /\ UNCHANGED plugin

RECURSIVE indexContainers(_, _)
indexContainers(index, ks) ==
    IF ks = <<>> THEN index
    ELSE indexContainers(Put(index, ContainerId(Head(ks)), Head(ks)), Tail(ks))

\* no client yet, over the objects os and the service names cs
\* no client, nothing subscribed, nothing pending, over the sensors ss
InitClients(ss, cs) ==
       /\ subscribers = [s \in ss |-> 0]
       /\ m_clients = {}
       /\ m_subscribedSensors = [c \in cs |-> EmptyMap]
       /\ m_connections = [c \in cs |-> [s \in ss |-> 0]]
       /\ attached = [c \in cs |-> [s \in ss |-> 0]]
       /\ m_pendingUpdates = [c \in cs |-> <<>>]
       /\ m_pendingMetaDataChanges = [c \in cs |-> <<>>]
       /\ outbox = [c \in cs |-> <<>>]
       /\ reply = NoReply
       /\ tick = NoTick
       /\ flushed = [c \in cs |-> NoHistory]
       /\ noted = [c \in cs |-> <<>>]
       /\ notedInfo = [c \in cs |-> EmptyMap]
       /\ lastOp = Op("init", "-", <<>>)
       /\ emitted = NoSignals
       /\ m_quitOnLastClientDisconnect = FALSE
       /\ quitRequested = FALSE

InitRest(os, cs) ==
    LET ss == UNION {SensorsOf(o) : o \in os}
    IN /\ plugin = NoPlugin
       /\ value = [s \in ss |-> NoValue]
       /\ info = [s \in ss |-> 1]
       /\ InitClients(ss, cs)

\* the Daemon as constructed: no provider loaded, no client
InitDaemon(os, cs) ==
    /\ m_providers = <<>>
    /\ m_containers = EmptyMap
    /\ sensorObjects = {}
    /\ InitRest(os, cs)

\* the Daemon after Daemon::init has loaded the provider P1, whose constructor
\* created the objects O1 and O2
Init ==
    /\ m_providers = <<"P1">>
    /\ m_containers = indexContainers(EmptyMap, containersOf("P1"))
    /\ sensorObjects = ObjectsCore
    /\ InitRest(ObjectsCore, {"c1"})

registryVars == <<m_providers, m_containers, sensorObjects>>
sensorVars == <<value, info>>
clientVars == <<m_clients, m_subscribedSensors, m_connections, attached, subscribers>>
pendingVars == <<m_pendingUpdates, m_pendingMetaDataChanges, noted, notedInfo>>

-----------------------------------------------------------------------------
(* Daemon::registerProvider *)

registerProvider_noCheck(p) ==
    /\ Quiet
    /\ m_providers' = Append(m_providers, p)
    /\ m_containers' = indexContainers(m_containers, containersOf(p))
    /\ UNCHANGED <<sensorObjects, sensorVars, clientVars, pendingVars>>

registerProvider(p) ==
    LET alreadyHasProvider ==
            \E i \in 1..Len(m_providers) : providerName(m_providers[i]) = providerName(p)
    IN /\ Quiet
       /\ IF alreadyHasProvider
          THEN UNCHANGED <<m_providers, m_containers>>
          ELSE /\ m_providers' = Append(m_providers, p)
               /\ m_containers' = indexContainers(m_containers, containersOf(p))
       /\ UNCHANGED <<sensorObjects, sensorVars, clientVars, pendingVars>>

\* the containers whose objectAdded / objectRemoved signals the Daemon listens to
Connected(k) == \E i \in 1..Len(m_providers) : m_providers[i] = ContainerProvider(k)

\* the number of listeners registerProvider has connected to a signal of
\* container k
Listeners(k) == Len(SelectSeq(m_providers, LAMBDA p : p = ContainerProvider(k)))

\* the signals the Daemon's listeners emit for object o: each listener emits
\* one signal for every sensor of the object
sensorSignals(signal, o) ==
    IF Listeners(ObjectContainer(o)) = 0 THEN NoSignals
    ELSE {[signal |-> signal, path |-> Path(s), times |-> Listeners(ObjectContainer(o))] :
             s \in SensorsOf(o)}

-----------------------------------------------------------------------------
(* SensorContainer::addObject and removeObject, called by the providers *)

addObject(o) ==
    /\ o \notin sensorObjects
    /\ \A x \in sensorObjects :
          ~(ObjectContainer(x) = ObjectContainer(o) /\ ObjectId(x) = ObjectId(o))
    /\ sensorObjects' = sensorObjects \cup {o}
    /\ emitted' = sensorSignals("sensorAdded", o)
    /\ Mute
    /\ NoQuit
    /\ UNCHANGED plugin
    /\ UNCHANGED <<m_providers, m_containers, sensorVars, clientVars, pendingVars>>

sensorRemoved_ignored(sub, paths) == sub

\* the Client's handler of Daemon::sensorRemoved, for every path of the set
sensorRemoved(sub, paths) == [x \in (DOMAIN sub) \ paths |-> sub[x]]

removeObject(o) ==
    /\ o \in sensorObjects
    /\ sensorObjects' = sensorObjects \ {o}
    /\ m_subscribedSensors' =
          [c \in Services |->
              IF Connected(ObjectContainer(o)) /\ c \in m_clients
              THEN sensorRemoved(m_subscribedSensors[c], {Path(s) : s \in SensorsOf(o)})
              ELSE m_subscribedSensors[c]]
    /\ emitted' = sensorSignals("sensorRemoved", o)
    /\ Mute
    /\ NoQuit
    /\ UNCHANGED plugin
    /\ UNCHANGED <<m_providers, m_containers, sensorVars, m_clients, m_connections,
                   attached, subscribers, pendingVars>>

-----------------------------------------------------------------------------
(* Daemon::subscribe and Daemon::unsubscribe *)

\* what Daemon::subscribe does to the Daemon, the Client and the sensors
Daemon_subscribe(c, sensorIds) ==
    LET st == subscribeSensors(ClientState(c), sensorIds)
    IN /\ \A s \in Sensors : st.att[s] <= MaxSubs /\ st.refs[s] <= MaxSubs
       /\ m_clients' = m_clients \cup {c}
       /\ m_subscribedSensors' = [m_subscribedSensors EXCEPT ![c] = st.sub]
       /\ m_connections' = [m_connections EXCEPT ![c] = st.conn]
       /\ attached' = [attached EXCEPT ![c] = st.att]
       /\ subscribers' = st.refs
       /\ UNCHANGED <<registryVars, sensorVars, pendingVars>>

subscribe(c, sensorIds) == Daemon_subscribe(c, sensorIds) /\ Quiet

RECURSIVE Without(_, _)
Without(entries, paths) ==
    IF entries = <<>> THEN <<>>
    ELSE IF Head(entries)[1] \in paths THEN Without(Tail(entries), paths)
    ELSE <<Head(entries)>> \o Without(Tail(entries), paths)

unsubscribe_purge(c, sensorIds) ==
    LET st == IF c \in m_clients
              THEN unsubscribeSensors(ClientState(c), sensorIds)
              ELSE ClientState(c)
    IN /\ m_subscribedSensors' = [m_subscribedSensors EXCEPT ![c] = st.sub]
       /\ m_connections' = [m_connections EXCEPT ![c] = st.conn]
       /\ attached' = [attached EXCEPT ![c] = st.att]
       /\ subscribers' = st.refs
       /\ m_pendingUpdates' =
             [m_pendingUpdates EXCEPT ![c] = Without(@, Range(sensorIds))]
       /\ Quiet
       /\ UNCHANGED <<registryVars, sensorVars, m_clients, m_pendingMetaDataChanges,
                      noted, notedInfo>>

\* what Daemon::unsubscribe does to the Client and the sensors
Daemon_unsubscribe(c, sensorIds) ==
    LET st == IF c \in m_clients
              THEN unsubscribeSensors(ClientState(c), sensorIds)
              ELSE ClientState(c)
    IN /\ m_subscribedSensors' = [m_subscribedSensors EXCEPT ![c] = st.sub]
       /\ m_connections' = [m_connections EXCEPT ![c] = st.conn]
       /\ attached' = [attached EXCEPT ![c] = st.att]
       /\ subscribers' = st.refs
       /\ UNCHANGED <<registryVars, sensorVars, m_clients, pendingVars>>

unsubscribe(c, sensorIds) == Daemon_unsubscribe(c, sensorIds) /\ Quiet

-----------------------------------------------------------------------------
(* Changes of a sensor outside the tick: the completion of an asynchronous   *)
(* query, output of a helper process                                         *)

FitsPending(pend) == \A c \in Services : Len(pend[c]) <= MaxPending

sensorSetValue(s, v) ==
    LET r == setValue(ValueState, s, v)
    IN /\ FitsPending(r.pend)
       /\ value' = r.value
       /\ m_pendingUpdates' = r.pend
       /\ noted' = r.noted
       /\ Quiet
       /\ UNCHANGED <<registryVars, info, clientVars, m_pendingMetaDataChanges, notedInfo>>

\* a setter that emits sensorInfoChanged (setMax, setUnit, ...)
sensorSetInfo(s, i) ==
    /\ info' = [info EXCEPT ![s] = i]
    /\ m_pendingMetaDataChanges' = sensorInfoChanged(m_pendingMetaDataChanges, s, i)
    /\ notedInfo' = [c \in Services |->
                        IF IsSubscribed(c, s) \/ Path(s) \in DOMAIN notedInfo[c]
                        THEN Put(notedInfo[c], Path(s),
                                 [info |-> i, subscribed |-> IsSubscribed(c, s),
                                  several |-> Path(s) \in DOMAIN notedInfo[c]])
                        ELSE notedInfo[c]]
    /\ Quiet
    /\ UNCHANGED <<registryVars, value, clientVars, m_pendingUpdates, noted>>

-----------------------------------------------------------------------------
(* Daemon::sendFrame: the tick.  upd is the sequence of setValue calls the   *)
(* providers' update() make, then every Client sends its frame.              *)

\* the steps of the tick: provider->update() of every provider, in the order of
\* m_providers, then client->sendFrame() of every Client
Polled(providers) == [i \in 1..Len(providers) |-> [step |-> "update", of |-> providers[i]]]

RECURSIVE Dispatched(_)
Dispatched(clients) ==
    IF clients = {} THEN <<>>
    ELSE LET c == CHOOSE x \in clients : TRUE
         IN <<[step |-> "sendFrame", of |-> c]>> \o Dispatched(clients \ {c})

\* the tick in which update() of the provider at position i throws: the exception
\* leaves Daemon::sendFrame, which catches nothing, and the process ends.  upd
\* is what the providers set before that
sendFrameThrows(upd, i) ==
    LET r == setValues(ValueState, upd)
    IN /\ i \in 1..Len(m_providers)
       /\ FitsPending(r.pend)
       /\ value' = r.value
       /\ m_pendingUpdates' = r.pend
       /\ noted' = r.noted
       /\ outbox' = NoMessages
       /\ flushed' = NoFlush
       /\ UNCHANGED plugin
       /\ reply' = NoReply
       /\ emitted' = NoSignals
       /\ NoQuit
       /\ tick' = SubSeq(Polled(m_providers), 1, i - 1)
                      \o <<[step |-> "throw", of |-> m_providers[i]]>>
       /\ UNCHANGED <<registryVars, info, clientVars, m_pendingMetaDataChanges, notedInfo>>

\* the process has ended
Terminated == tick # <<>> /\ tick[Len(tick)].step = "throw"

sendFrame_dispatchFirst(upd) ==
    LET r == setValues(ValueState, upd)
    IN /\ FitsPending(r.pend)
       /\ value' = r.value
       /\ outbox' = [c \in Services |->
                        IF c \in m_clients
                        THEN clientSendFrame(m_pendingMetaDataChanges[c], m_pendingUpdates[c])
                        ELSE <<>>]
       /\ flushed' = [c \in Services |->
                        IF c \in m_clients
                        THEN [noted |-> r.noted[c], info |-> notedInfo[c]]
                        ELSE NoHistory]
       /\ m_pendingUpdates' =
             setValues([value |-> value, pend |-> [c \in Services |-> <<>>], noted |-> noted],
                       upd).pend
       /\ m_pendingMetaDataChanges' = [c \in Services |-> <<>>]
       /\ noted' = [c \in Services |-> <<>>]
       /\ notedInfo' = [c \in Services |-> EmptyMap]
       /\ UNCHANGED plugin
       /\ reply' = NoReply
       /\ emitted' = NoSignals
       /\ NoQuit
       /\ tick' = Dispatched(m_clients) \o Polled(m_providers)
       /\ UNCHANGED <<registryVars, info, clientVars>>

sendFrame_noClear(upd) ==
    LET r == setValues(ValueState, upd)
    IN /\ FitsPending(r.pend)
       /\ value' = r.value
       /\ outbox' = [c \in Services |->
                        IF c \in m_clients
                        THEN clientSendFrame(m_pendingMetaDataChanges[c], r.pend[c])
                        ELSE <<>>]
       /\ flushed' = [c \in Services |->
                        IF c \in m_clients
                        THEN [noted |-> r.noted[c], info |-> notedInfo[c]]
                        ELSE NoHistory]
       /\ m_pendingUpdates' = r.pend
       /\ m_pendingMetaDataChanges' = [c \in Services |-> <<>>]
       /\ noted' = [c \in Services |-> <<>>]
       /\ notedInfo' = [c \in Services |-> EmptyMap]
       /\ UNCHANGED plugin
       /\ reply' = NoReply
       /\ emitted' = NoSignals
       /\ NoQuit
       /\ tick' = Polled(m_providers) \o Dispatched(m_clients)
       /\ UNCHANGED <<registryVars, info, clientVars>>

\* what Daemon::sendFrame does outside the plugins, when their update() make the
\* setValue calls of upd
Daemon_sendFrame(upd) ==
    LET r == setValues(ValueState, upd)
    IN /\ FitsPending(r.pend)
       /\ value' = r.value
       /\ outbox' = [c \in Services |->
                        IF c \in m_clients
                        THEN clientSendFrame(m_pendingMetaDataChanges[c], r.pend[c])
                        ELSE <<>>]
       /\ flushed' = [c \in Services |->
                        IF c \in m_clients
                        THEN [noted |-> r.noted[c], info |-> notedInfo[c]]
                        ELSE NoHistory]
       /\ m_pendingUpdates' = [c \in Services |-> <<>>]
       /\ m_pendingMetaDataChanges' = [c \in Services |-> <<>>]
       /\ noted' = [c \in Services |-> <<>>]
       /\ notedInfo' = [c \in Services |-> EmptyMap]
       /\ reply' = NoReply
       /\ emitted' = NoSignals
       /\ NoQuit
       /\ tick' = Polled(m_providers) \o Dispatched(m_clients)
       /\ UNCHANGED <<registryVars, info, clientVars>>

sendFrame(upd) == Daemon_sendFrame(upd) /\ UNCHANGED plugin

-----------------------------------------------------------------------------
(* Daemon::onServiceDisconnected: the Client is deleted *)

RECURSIVE unsubscribeAll(_, _)
unsubscribeAll(refs, sub) ==
    IF DOMAIN sub = {} THEN refs
    ELSE LET k == CHOOSE x \in DOMAIN sub : TRUE
         IN unsubscribeAll([refs EXCEPT ![sub[k]] = @ - 1], Drop(sub, k))

\* what Daemon::onServiceDisconnected does to the Daemon and the sensors
Daemon_onServiceDisconnected(c) ==
    /\ IF c \in m_clients
       THEN /\ subscribers' = unsubscribeAll(subscribers, m_subscribedSensors[c])
            /\ m_clients' = m_clients \ {c}
            /\ m_subscribedSensors' = [m_subscribedSensors EXCEPT ![c] = EmptyMap]
            /\ m_connections' = [m_connections EXCEPT ![c] = Zero]
            /\ attached' = [attached EXCEPT ![c] = Zero]
            /\ m_pendingUpdates' = [m_pendingUpdates EXCEPT ![c] = <<>>]
            /\ m_pendingMetaDataChanges' = [m_pendingMetaDataChanges EXCEPT ![c] = <<>>]
            /\ noted' = [noted EXCEPT ![c] = <<>>]
            /\ notedInfo' = [notedInfo EXCEPT ![c] = EmptyMap]
       ELSE UNCHANGED <<clientVars, pendingVars>>
    /\ UNCHANGED <<registryVars, sensorVars>>

onServiceDisconnected_keepsClient(c) ==
    /\ IF c \in m_clients
       THEN /\ subscribers' = unsubscribeAll(subscribers, m_subscribedSensors[c])
            /\ m_subscribedSensors' = [m_subscribedSensors EXCEPT ![c] = EmptyMap]
            /\ UNCHANGED <<m_clients, m_connections, attached, pendingVars>>
       ELSE UNCHANGED <<clientVars, pendingVars>>
    /\ UNCHANGED <<registryVars, sensorVars>>
    /\ Quiet

lastClientQuit_anyClient ==
    /\ quitRequested' = m_quitOnLastClientDisconnect
    /\ UNCHANGED m_quitOnLastClientDisconnect

\* the end of Daemon::onServiceDisconnected: quit when the last Client is gone
\* and the option is set
lastClientQuit ==
    /\ quitRequested' = (m_clients' = {} /\ m_quitOnLastClientDisconnect)
    /\ UNCHANGED m_quitOnLastClientDisconnect

onServiceDisconnected(c) ==
    /\ Daemon_onServiceDisconnected(c)
    /\ Mute
    /\ emitted' = NoSignals
    /\ UNCHANGED plugin
    /\ lastClientQuit

\* Daemon::setQuitOnLastClientDisconnect
setQuitOnLastClientDisconnect(quit) ==
    /\ m_quitOnLastClientDisconnect' = quit
    /\ quitRequested' = FALSE
    /\ Mute
    /\ emitted' = NoSignals
    /\ UNCHANGED <<plugin, registryVars, sensorVars, clientVars, pendingVars>>

-----------------------------------------------------------------------------
(* Daemon::sensorData: the current values of the requested paths *)

RECURSIVE sensorData_anyValue(_)
sensorData_anyValue(sensorIds) ==
    IF sensorIds = <<>> THEN <<>>
    ELSE LET sensorId == Head(sensorIds)
             sensorProperty == findSensor(sensorId)
         IN (IF sensorProperty # NULL
             THEN <<<<sensorId, value[sensorProperty]>>>>
             ELSE <<>>) \o sensorData_anyValue(Tail(sensorIds))

\* the list the method returns: the loop appends (sensorId, value) when the
\* path resolves and the value is valid
RECURSIVE sensorData(_)
sensorData(sensorIds) ==
    IF sensorIds = <<>> THEN <<>>
    ELSE LET sensorId == Head(sensorIds)
             sensorProperty == findSensor(sensorId)
         IN (IF sensorProperty # NULL /\ value[sensorProperty] # NoValue
             THEN <<<<sensorId, value[sensorProperty]>>>>
             ELSE <<>>) \o sensorData(Tail(sensorIds))

\* the bus call: the method reads the registry and the values, writes nothing
sensorDataRequest(sensorIds) ==
    /\ UNCHANGED plugin
    /\ reply' = sensorData(sensorIds)
    /\ emitted' = NoSignals
    /\ NoQuit
    /\ outbox' = NoMessages
    /\ flushed' = NoFlush
    /\ tick' = NoTick
    /\ UNCHANGED <<registryVars, sensorVars, clientVars, pendingVars>>

-----------------------------------------------------------------------------
(* The disks plugin: VolumeObject, DisksPlugin and the aggregate sensors of   *)
(* the object "all".  info[s] is the maximum of the sensor s.                 *)

\* StorageVolume::size of the device of a volume
volumeSize(o) ==
    CASE o = "sda1" -> 1000
      [] o = "sdb1" -> 2000
      [] o = "sdc1" -> 500
      [] o = "allx" -> 500

\* the (size, availableSize) pairs a free-space job of a volume can deliver
JobResults(o) ==
    CASE o = "sda1" -> {<<1000, 600>>, <<1000, 500>>}
      [] o = "sdb1" -> {<<2000, 1500>>, <<1800, 1500>>}
      [] o = "sdc1" -> {<<500, 100>>}
      [] o = "allx" -> {<<500, 100>>}

matchObjects_any(id) == TRUE

\* the pattern ^(?!all).*$ of setMatchSensors, on an object id
matchObjects(id) == ~(Len(id) >= 3 /\ SubSeq(id, 1, 3) = <<"a", "l", "l">>)

\* the sensors an aggregate sensor of the disk container sums: the property
\* prop of every object of the container whose id matches
matchedSensors(objects, prop) ==
    {<<o, prop>> : o \in {x \in objects : /\ ObjectContainer(x) = "K4"
                                          /\ matchObjects(ObjectId(x))
                                          /\ prop \in ObjectProps(x)}}

RECURSIVE SumOf(_, _)
SumOf(vals, ss) ==
    IF ss = {} THEN 0
    ELSE LET s == CHOOSE x \in ss : TRUE
         IN vals[s] + SumOf(vals, ss \ {s})

\* AggregateSensor::value in sum mode
aggregateValue(objects, vals, prop) == SumOf(vals, matchedSensors(objects, prop))

\* PercentageSensor::value of a base sensor with value v and maximum max
percentageValue(v, max) == IF max = 0 THEN NoValue ELSE (100 * v) \div max

\* the listener of the valueChanged signal of the aggregate "total": the maxima
\* of the aggregates "free" and "used" become the value of "total"
totalChanged(inf, objects, vals) ==
    [inf EXCEPT ![<<AllDisks, PropFree>>] = aggregateValue(objects, vals, PropTotal),
                ![<<AllDisks, PropUsed>>] = aggregateValue(objects, vals, PropTotal)]

\* SensorObject::isSubscribed
isSubscribed(o) == \E prop \in ObjectProps(o) : subscribers[<<o, prop>>] > 0

\* no Client listens to a property of the set
NoListener(ss) == \A c \in Services, s \in ss : attached[c][s] = 0

\* the sensors whose value or maximum the disks plugin changes after construction
DiskChanging ==
    {<<o, prop>> : o \in DiskObjects, prop \in {PropTotal, PropUsed, PropFree, PropUsedPercent}}
       \cap Sensors

\* the members of the disks plugin and of its volume objects: the volumes of
\* m_volumesByDevice, the free-space jobs in flight per volume, the state of
\* m_elapsedTimer (invalid, or started with no or some time elapsed since), and
\* m_bytesRead and m_bytesWritten per volume
DiskMembers(volumes) ==
    [volumes |-> volumes,
     jobs |-> [o \in DiskVolumes |-> 0],
     timer |-> "invalid",
     bytes |-> [o \in DiskVolumes |-> [read |-> 0, written |-> 0]]]

\* the constructor of VolumeObject, for a device that is mounted for the first
\* time: the object joins the container and the aggregates take its sensors in
createAccessibleVolumeObject(o) ==
    LET vals == [value EXCEPT ![<<o, PropName>>] = 1,
                              ![<<o, PropTotal>>] = volumeSize(o)]
        objects == sensorObjects \cup {o}
    IN /\ value[<<o, PropName>>] = NoValue
       /\ NoListener(SensorsOf(AllDisks))
       /\ value' = vals
       /\ sensorObjects' = objects
       /\ info' = totalChanged([info EXCEPT ![<<o, PropUsed>>] = volumeSize(o),
                                            ![<<o, PropFree>>] = volumeSize(o)],
                               objects, vals)
       /\ plugin' = [plugin EXCEPT !.volumes = @ \cup {o}]
       /\ emitted' = sensorSignals("sensorAdded", o)
       /\ Mute
       /\ NoQuit
       /\ UNCHANGED <<m_providers, m_containers, clientVars, pendingVars>>

deviceRemoved_keepsMap(o) ==
    /\ o \in sensorObjects
    /\ NoListener(SensorsOf(AllDisks))
    /\ sensorObjects' = sensorObjects \ {o}
    /\ plugin' = plugin
    /\ m_subscribedSensors' =
          [c \in Services |->
              IF Connected(ObjectContainer(o)) /\ c \in m_clients
              THEN sensorRemoved(m_subscribedSensors[c], {Path(s) : s \in SensorsOf(o)})
              ELSE m_subscribedSensors[c]]
    /\ info' = totalChanged(info, sensorObjects \ {o}, value)
    /\ emitted' = sensorSignals("sensorRemoved", o)
    /\ Mute
    /\ NoQuit
    /\ UNCHANGED <<m_providers, m_containers, value, m_clients, m_connections,
                   attached, subscribers, pendingVars>>

\* the deviceRemoved and accessibilityChanged listeners: the volume leaves the
\* container, the Clients drop its paths, the aggregates let its sensors go
deviceRemoved(o) ==
    /\ o \in plugin.volumes
    /\ NoListener(SensorsOf(AllDisks))
    /\ sensorObjects' = sensorObjects \ {o}
    /\ plugin' = [plugin EXCEPT !.volumes = @ \ {o}]
    /\ m_subscribedSensors' =
          [c \in Services |->
              IF Connected(ObjectContainer(o)) /\ c \in m_clients
              THEN sensorRemoved(m_subscribedSensors[c], {Path(s) : s \in SensorsOf(o)})
              ELSE m_subscribedSensors[c]]
    /\ info' = totalChanged(info, sensorObjects \ {o}, value)
    /\ emitted' = sensorSignals("sensorRemoved", o)
    /\ Mute
    /\ NoQuit
    /\ UNCHANGED <<m_providers, m_containers, value, m_clients, m_connections,
                   attached, subscribers, pendingVars>>

\* VolumeObject::update as DisksPlugin::update calls it for a subscribed volume,
\* and the result of the job it starts: res is (size, availableSize)
volumeUpdate(o, res) ==
    LET size == res[1]
        available == res[2]
        totals == [value EXCEPT ![<<o, PropTotal>>] = size]
    IN /\ o \in plugin.volumes
       /\ isSubscribed(o)
       /\ NoListener(DiskChanging)
       /\ value' = [totals EXCEPT ![<<o, PropFree>>] = available,
                                  ![<<o, PropUsed>>] = size - available]
       /\ info' = [(IF <<o, PropTotal>> \in matchedSensors(sensorObjects, PropTotal)
                    THEN totalChanged(info, sensorObjects, totals)
                    ELSE info) EXCEPT ![<<o, PropFree>>] = size,
                                      ![<<o, PropUsed>>] = size]
       /\ Quiet
       /\ UNCHANGED <<registryVars, clientVars, pendingVars>>

-----------------------------------------------------------------------------
(* DisksPlugin::update within the tick, and the free-space jobs it starts *)

\* the order in which the lines of /proc/diskstats name the volumes
VolumeOrder == <<"sda1", "sdb1", "sdc1", "allx">>

\* the milliseconds m_elapsedTimer.restart() returns when time has passed
ElapsedMs == 1000

\* the byte counters (read, written) that /proc/diskstats can show for a volume
DiskStats == {[read |-> 512, written |-> 512], [read |-> 1024, written |-> 1024]}

\* VolumeObject::setBytes: the setValue calls it makes
setBytes(o, bytes, stats, elapsed) ==
    IF elapsed = 0 THEN <<>>
    ELSE <<<<<<o, PropRead>>, ((stats.read - bytes.read) * 1000) \div elapsed>>,
           <<<<o, PropWrite>>, ((stats.written - bytes.written) * 1000) \div elapsed>>>>

\* the setValue calls of the loop over the lines of /proc/diskstats
RECURSIVE rateCalls(_, _, _, _)
rateCalls(order, members, stats, elapsed) ==
    IF order = <<>> THEN <<>>
    ELSE (IF Head(order) \in members.volumes
          THEN setBytes(Head(order), members.bytes[Head(order)], stats, elapsed)
          ELSE <<>>) \o rateCalls(Tail(order), members, stats, elapsed)

DisksPlugin_update_all(members, stats) ==
    [members |-> [volumes |-> members.volumes,
                  jobs |-> [o \in DiskVolumes |->
                              IF o \in members.volumes
                              THEN members.jobs[o] + 1 ELSE members.jobs[o]],
                  timer |-> "fresh",
                  bytes |-> [o \in DiskVolumes |->
                               IF o \in members.volumes THEN stats ELSE members.bytes[o]]],
     calls |-> rateCalls(VolumeOrder, members, stats,
                         IF members.timer = "aged" THEN ElapsedMs ELSE 0)]

\* DisksPlugin::update: the members afterwards and the setValue calls made
DisksPlugin_update(members, stats) ==
    LET subscribed == {o \in members.volumes : isSubscribed(o)}
        elapsed == IF members.timer = "aged" THEN ElapsedMs ELSE 0
    IN IF subscribed = {} THEN [members |-> members, calls |-> <<>>]
       ELSE [members |->
                [volumes |-> members.volumes,
                 jobs |-> [o \in DiskVolumes |->
                             IF o \in subscribed THEN members.jobs[o] + 1
                             ELSE members.jobs[o]],
                 timer |-> "fresh",
                 bytes |-> [o \in DiskVolumes |->
                              IF o \in members.volumes THEN stats ELSE members.bytes[o]]],
             calls |-> rateCalls(VolumeOrder, members, stats, elapsed)]

\* Daemon::sendFrame of the daemon whose provider is the disks plugin; the
\* counters of /proc/diskstats never go backwards
diskTick(stats) ==
    LET r == DisksPlugin_update(plugin, stats)
    IN /\ \A o \in plugin.volumes : /\ stats.read >= plugin.bytes[o].read
                                    /\ stats.written >= plugin.bytes[o].written
       /\ \A o \in DiskVolumes : r.members.jobs[o] <= MaxJobs
       /\ Daemon_sendFrame(r.calls)
       /\ plugin' = r.members

\* time passes on m_elapsedTimer
timePasses ==
    /\ plugin.timer = "fresh"
    /\ plugin' = [plugin EXCEPT !.timer = "aged"]
    /\ Silent
    /\ UNCHANGED <<registryVars, sensorVars, clientVars, pendingVars>>

\* the history of info changes after sensor s got the info i
infoNoted(history, s, i) ==
    [c \in Services |->
        IF IsSubscribed(c, s) \/ Path(s) \in DOMAIN history[c]
        THEN Put(history[c], Path(s),
                 [info |-> i, subscribed |-> IsSubscribed(c, s),
                  several |-> Path(s) \in DOMAIN history[c]])
        ELSE history[c]]

\* the listener of KJob::result for a job without error: res is
\* (size, availableSize)
jobResult(o, res) ==
    LET size == res[1]
        available == res[2]
        r1 == setValue(ValueState, <<o, PropTotal>>, size)
        r2 == setValue(r1, <<o, PropFree>>, available)
        r3 == setValue(r2, <<o, PropUsed>>, size - available)
    IN /\ plugin.jobs[o] > 0
       /\ NoListener(SensorsOf(AllDisks))
       /\ FitsPending(r3.pend)
       /\ value' = r3.value
       /\ m_pendingUpdates' = r3.pend
       /\ noted' = r3.noted
       /\ info' = [(IF <<o, PropTotal>> \in matchedSensors(sensorObjects, PropTotal)
                    THEN totalChanged(info, sensorObjects, r1.value)
                    ELSE info) EXCEPT ![<<o, PropFree>>] = size,
                                      ![<<o, PropUsed>>] = size]
       /\ m_pendingMetaDataChanges' =
             sensorInfoChanged(sensorInfoChanged(m_pendingMetaDataChanges,
                                                 <<o, PropFree>>, size),
                               <<o, PropUsed>>, size)
       /\ notedInfo' = infoNoted(infoNoted(notedInfo, <<o, PropFree>>, size),
                                 <<o, PropUsed>>, size)
       /\ plugin' = [plugin EXCEPT !.jobs[o] = @ - 1]
       /\ Silent
       /\ UNCHANGED <<registryVars, clientVars>>

jobError_applied(o) ==
    /\ plugin.jobs[o] > 0
    /\ plugin' = [plugin EXCEPT !.jobs[o] = @ - 1]
    /\ value' = [value EXCEPT ![<<o, PropTotal>>] = 1]
    /\ info' = [info EXCEPT ![<<o, PropFree>>] = 1, ![<<o, PropUsed>>] = 1]
    /\ Silent
    /\ UNCHANGED <<registryVars, clientVars, pendingVars>>

\* the listener of KJob::result for a job that ended with an error
jobError(o) ==
    /\ plugin.jobs[o] > 0
    /\ plugin' = [plugin EXCEPT !.jobs[o] = @ - 1]
    /\ Silent
    /\ UNCHANGED <<registryVars, sensorVars, clientVars, pendingVars>>

-----------------------------------------------------------------------------
(* LinuxIntelGpu: the helper process that is started and terminated by the   *)
(* subscribedChanged signal of the device.  plugin is the QProcess: its      *)
(* state and whether it has been asked to terminate and has not yet exited.  *)

HelperIdle == [state |-> "NotRunning", sigterm |-> FALSE]

\* QProcess::start: does nothing unless the process is not running
QProcess_start(proc) ==
    IF proc.state # "NotRunning" THEN proc
    ELSE [state |-> "Running", sigterm |-> FALSE]

\* QProcess::terminate: asks the process to exit; the process exits later
QProcess_terminate(proc) ==
    IF proc.state = "NotRunning" THEN proc
    ELSE [proc EXCEPT !.sigterm = TRUE]

\* whether some property of the object is subscribed, for subscriber counts refs
objectSubscribed(refs, o) == \E prop \in ObjectProps(o) : refs[<<o, prop>>] > 0

\* the listener of GpuDevice::subscribedChanged, run when the subscribed state
\* of the device goes from before to after
subscribedChanged(proc, before, after) ==
    IF ~before /\ after THEN QProcess_start(proc)
    ELSE IF before /\ ~after THEN QProcess_terminate(proc)
    ELSE proc

\* the plugin's part of a handler that changes subscriber counts
helperFollows ==
    plugin' = subscribedChanged(plugin, objectSubscribed(subscribers, IntelGpu),
                                objectSubscribed(subscribers', IntelGpu))

gpuSubscribe(c, sensorIds) == Daemon_subscribe(c, sensorIds) /\ Silent /\ helperFollows

gpuUnsubscribe(c, sensorIds) == Daemon_unsubscribe(c, sensorIds) /\ Silent /\ helperFollows

gpuDisconnected(c) ==
    /\ Daemon_onServiceDisconnected(c)
    /\ Mute
    /\ emitted' = NoSignals
    /\ lastClientQuit
    /\ helperFollows

\* the helper process, asked to terminate, exits
helperFinished ==
    /\ plugin.state = "Running"
    /\ plugin.sigterm
    /\ plugin' = HelperIdle
    /\ Silent
    /\ UNCHANGED <<registryVars, sensorVars, clientVars, pendingVars>>

-----------------------------------------------------------------------------
(* The dispatch engine: one provider with two objects of one property each,  *)
(* and requests that name one of the two sensors, a path that does not       *)
(* resolve, or nothing                                                       *)

SensorA == <<"O1", <<"t">>>>
SensorB == <<"O2", <<"t">>>>
PathA == Path(SensorA)
PathB == Path(SensorB)
PathBad == <<"d", "/", "x">>

SensorsCore == {SensorA, SensorB}
PathsCore == {PathA, PathB, PathBad}
ServicesCore == {"c1"}

\* the history of the handler that ran
Log(name, c, paths) == lastOp' = Op(name, c, paths)

\* the values the scenario gives a sensor
ValuesOf(s) == IF s = SensorA THEN Values ELSE {1}
Updates(ss) == {u \in ss \X Values : u[2] \in ValuesOf(u[1])}

Next ==
    \/ \E c \in ServicesCore, l \in SeqsUpTo(PathsCore, 1) :
          subscribe(c, l) /\ Log("subscribe", c, <<>>)
    \/ \E c \in ServicesCore, l \in SeqsUpTo(PathsCore, 1) :
          unsubscribe(c, l) /\ Log("unsubscribe", c, <<>>)
    \/ \E s \in SensorsCore, v \in Values \cup {NoValue} :
          /\ v \in ValuesOf(s) \cup {NoValue}
          /\ sensorSetValue(s, v) /\ Log("setValue", "-", <<>>)
    \/ \E upd \in SeqsUpTo(Updates(SensorsCore \cap RegisteredSensors), MaxUpd) :
          sendFrame(upd) /\ Log("sendFrame", "-", <<>>)

Spec == Init /\ [][Next]_vars

-----------------------------------------------------------------------------
(* The metadata scenario: as above, with changes of the sensors' metadata    *)
(* and value changes of one sensor                                           *)

NextMeta ==
    \/ \E c \in ServicesCore, l \in SeqsUpTo(PathsCore, 1) :
          subscribe(c, l) /\ Log("subscribe", c, <<>>)
    \/ \E c \in ServicesCore, l \in SeqsUpTo(PathsCore, 1) :
          unsubscribe(c, l) /\ Log("unsubscribe", c, <<>>)
    \/ sensorSetValue(SensorA, 1) /\ Log("setValue", "-", <<>>)
    \/ \E s \in SensorsCore, i \in Infos :
          /\ (s = SensorA \/ i = 2)
          /\ sensorSetInfo(s, i) /\ Log("setInfo", "-", <<>>)
    \/ sendFrame(<<>>) /\ Log("sendFrame", "-", <<>>)

SpecMeta == Init /\ [][NextMeta]_vars

-----------------------------------------------------------------------------
(* The registration and tick scenario: three providers are registered in any *)
(* order, two of them of one name and two of them with a container of one    *)
(* id; one consumer subscribes to a sensor of the first, and update() of a   *)
(* provider may throw                                                        *)

ProvidersTick == {"P1", "P2", "P3"}
ContainersTick == {"K1", "K2", "K3"}

\* the sensors of the first n registered providers: those their update() sets
PolledSensors(n) ==
    {s \in Sensors : \E i \in 1..n :
        i <= Len(m_providers) /\ m_providers[i] = ContainerProvider(ObjectContainer(s[1]))}

InitTick ==
    /\ m_providers = <<>>
    /\ m_containers = EmptyMap
    /\ sensorObjects = {"O1"}
    /\ InitRest({"O1"}, {"c1"})

NextTick ==
    \/ \E p \in ProvidersTick :
          ~Terminated /\ registerProvider(p) /\ Log("registerProvider", p, <<>>)
    \/ \E c \in ServicesCore, l \in SeqsUpTo({PathA}, 1) :
          ~Terminated /\ subscribe(c, l) /\ Log("subscribe", c, <<>>)
    \/ \E c \in ServicesCore, l \in SeqsUpTo({PathA}, 1) :
          ~Terminated /\ unsubscribe(c, l) /\ Log("unsubscribe", c, <<>>)
    \/ \E upd \in SeqsUpTo(Updates(PolledSensors(Len(m_providers))), MaxUpd) :
          ~Terminated /\ sendFrame(upd) /\ Log("sendFrame", "-", <<>>)
    \/ \E i \in 1..Cardinality(ProvidersTick) :
          \E upd \in SeqsUpTo(Updates(PolledSensors(i)), MaxUpd) :
             ~Terminated /\ sendFrameThrows(upd, i) /\ Log("sendFrame", "-", <<>>)

SpecTick == InitTick /\ [][NextTick]_vars

-----------------------------------------------------------------------------
(* The object lifecycle scenario: the provider removes an object from its    *)
(* container and adds it again while the object and its properties live on   *)
(* and keep changing; one consumer, which never subscribes to a path it is   *)
(* subscribed to, comes and goes                                             *)

ObjectsLife == {"O1"}

NextLife ==
    \/ \E c \in ServicesCore, p \in {PathA, PathB} :
          /\ p \notin DOMAIN m_subscribedSensors[c]
          /\ subscribe(c, <<p>>) /\ Log("subscribe", c, <<>>)
    \/ \E c \in ServicesCore, p \in {PathA, PathB} :
          unsubscribe(c, <<p>>) /\ Log("unsubscribe", c, <<>>)
    \/ \E o \in ObjectsLife : removeObject(o) /\ Log("removeObject", "-", <<>>)
    \/ \E o \in ObjectsLife : addObject(o) /\ Log("addObject", "-", <<>>)
    \/ sensorSetValue(SensorA, 1) /\ Log("setValue", "-", <<>>)
    \/ sensorSetInfo(SensorA, 2) /\ Log("setInfo", "-", <<>>)
    \/ sendFrame(<<>>) /\ Log("sendFrame", "-", <<>>)
    \/ \E c \in ServicesCore : onServiceDisconnected(c) /\ Log("disconnect", c, <<>>)

SpecLife == Init /\ [][NextLife]_vars

-----------------------------------------------------------------------------
(* The current-values scenario: one consumer is subscribed or not, the       *)
(* sensors get their first value, an object comes and goes, and any caller   *)
(* asks for the current values of a list of paths, some of which do not      *)
(* resolve                                                                   *)

NextData ==
    \/ \E c \in ServicesCore :
          /\ PathB \notin DOMAIN m_subscribedSensors[c]
          /\ subscribe(c, <<PathB>>) /\ Log("subscribe", c, <<>>)
    \/ \E o \in ObjectsLife : removeObject(o) /\ Log("removeObject", "-", <<>>)
    \/ \E o \in ObjectsLife : addObject(o) /\ Log("addObject", "-", <<>>)
    \/ \E s \in SensorsCore : sensorSetValue(s, 1) /\ Log("setValue", "-", <<>>)
    \/ \E l \in SeqsUpTo(PathsCore, MaxRequest) :
          sensorDataRequest(l) /\ Log("sensorData", "-", l)

SpecData == Init /\ [][NextData]_vars

-----------------------------------------------------------------------------
(* The disks scenario: the disks plugin is loaded with some volumes mounted,  *)
(* volumes are mounted and unmounted, a consumer subscribes to the name of a  *)
(* volume, and the free-space jobs of the subscribed volumes deliver          *)

\* the state after Daemon::init has loaded the disks plugin, whose constructor
\* found the volumes of the set mounted and then added the aggregate sensors
InitDiskWith(mounted) ==
       LET ss == UNION {SensorsOf(o) : o \in DiskObjects}
           vals == [s \in ss |->
                      IF s[1] \in mounted /\ s[2] = PropName THEN 1
                      ELSE IF s[1] \in mounted /\ s[2] = PropTotal THEN volumeSize(s[1])
                      ELSE NoValue]
           maxima == [s \in ss |->
                        IF s[1] \in mounted /\ s[2] \in {PropUsed, PropFree}
                        THEN volumeSize(s[1]) ELSE 0]
       IN /\ m_providers = <<"P4">>
          /\ m_containers = indexContainers(EmptyMap, containersOf("P4"))
          /\ sensorObjects = mounted \cup {AllDisks}
          /\ value = vals
          /\ info = totalChanged(maxima, mounted \cup {AllDisks}, vals)
          /\ InitClients(ss, {"c1"})
          /\ plugin = DiskMembers(mounted)

InitDisk == \E mounted \in SUBSET DiskVolumes : InitDiskWith(mounted)

NextDisk ==
    \/ \E c \in ServicesCore, o \in DiskVolumes :
          /\ Path(<<o, PropName>>) \notin DOMAIN m_subscribedSensors[c]
          /\ subscribers[<<o, PropName>>] = 0
          /\ subscribe(c, <<Path(<<o, PropName>>)>>) /\ Log("subscribe", c, <<>>)
    \/ \E o \in DiskVolumes :
          createAccessibleVolumeObject(o) /\ Log("deviceAdded", "-", <<>>)
    \/ \E o \in DiskVolumes : deviceRemoved(o) /\ Log("deviceRemoved", "-", <<>>)
    \/ \E o \in DiskVolumes : \E res \in JobResults(o) :
          volumeUpdate(o, res) /\ Log("update", "-", <<>>)

SpecDisk == InitDisk /\ [][NextDisk]_vars

(* The disks plugin polled by the tick: two volumes are mounted and can go,  *)
(* the consumer listens to the names of volumes.                             *)
PollVolumes == {"sda1", "sdb1"}

InitDiskPoll == InitDiskWith(PollVolumes)

NextDiskPoll ==
    \/ \E c \in ServicesCore, o \in PollVolumes :
          /\ Path(<<o, PropName>>) \notin DOMAIN m_subscribedSensors[c]
          /\ subscribe(c, <<Path(<<o, PropName>>)>>) /\ Log("subscribe", c, <<>>)
    \/ \E c \in ServicesCore, o \in PollVolumes :
          /\ Path(<<o, PropName>>) \in DOMAIN m_subscribedSensors[c]
          /\ unsubscribe(c, <<Path(<<o, PropName>>)>>) /\ Log("unsubscribe", c, <<>>)
    \/ \E o \in DiskVolumes : deviceRemoved(o) /\ Log("deviceRemoved", "-", <<>>)
    \/ timePasses /\ Log("timePasses", "-", <<>>)
    \/ \E stats \in DiskStats : diskTick(stats) /\ Log("update", "-", <<>>)
    \/ \E o \in DiskVolumes : jobError(o) /\ Log("jobError", "-", <<>>)

SpecDiskPoll == InitDiskPoll /\ [][NextDiskPoll]_vars

(* The free-space jobs of one volume: the consumer listens to its used space *)
JobVolume == "sda1"

InitDiskJob == InitDiskWith({JobVolume})

NextDiskJob ==
    \/ \E c \in ServicesCore :
          /\ Path(<<JobVolume, PropUsed>>) \notin DOMAIN m_subscribedSensors[c]
          /\ subscribe(c, <<Path(<<JobVolume, PropUsed>>)>>) /\ Log("subscribe", c, <<>>)
    \/ \E c \in ServicesCore :
          /\ Path(<<JobVolume, PropUsed>>) \in DOMAIN m_subscribedSensors[c]
          /\ unsubscribe(c, <<Path(<<JobVolume, PropUsed>>)>>) /\ Log("unsubscribe", c, <<>>)
    \/ \E stats \in DiskStats : diskTick(stats) /\ Log("update", "-", <<>>)
    \/ \E res \in JobResults(JobVolume) :
          jobResult(JobVolume, res) /\ Log("jobResult", "-", <<>>)
    \/ timePasses /\ Log("timePasses", "-", <<>>)
    \/ jobError(JobVolume) /\ Log("jobError", "-", <<>>)

SpecDiskJob == InitDiskJob /\ [][NextDiskJob]_vars

-----------------------------------------------------------------------------
(* The gpu scenario: the gpu plugin is loaded with one Intel device; one      *)
(* consumer subscribes to and unsubscribes from its two sensors and comes and *)
(* goes, and the helper process exits when it has been asked to               *)

PathsGpu == {Path(<<IntelGpu, PropUsage>>), Path(<<IntelGpu, PropCoreFrequency>>)}

InitGpu ==
    /\ m_providers = <<"P5">>
    /\ m_containers = indexContainers(EmptyMap, containersOf("P5"))
    /\ sensorObjects = {IntelGpu}
    /\ value = [s \in SensorsOf(IntelGpu) |-> NoValue]
    /\ info = [s \in SensorsOf(IntelGpu) |-> 1]
    /\ InitClients(SensorsOf(IntelGpu), {"c1"})
    /\ plugin = HelperIdle

NextGpu ==
    \/ \E c \in ServicesCore, p \in PathsGpu :
          gpuSubscribe(c, <<p>>) /\ Log("subscribe", c, <<>>)
    \/ \E c \in ServicesCore, p \in PathsGpu :
          gpuUnsubscribe(c, <<p>>) /\ Log("unsubscribe", c, <<>>)
    \/ \E c \in ServicesCore : gpuDisconnected(c) /\ Log("disconnect", c, <<>>)
    \/ helperFinished /\ Log("finished", "-", <<>>)

SpecGpu == InitGpu /\ [][NextGpu]_vars

-----------------------------------------------------------------------------
(* The path-resolution scenario: the provider is registered and its objects  *)
(* come and go; one consumer subscribes to batches of paths, some of which   *)
(* resolve and some of which do not, and may disconnect                      *)

PathChars == {"d", "x", "n", "t", Slash}

SensorX == <<"O1", <<"t">>>>
SensorN == <<"O3", <<"n">>>>
SensorXN == <<"O4", <<"t">>>>
SensorsPath == {SensorX, SensorN, SensorXN}

\* every string of at most MaxProbe characters, and the path of every sensor
ProbePaths == SeqsUpTo(PathChars, MaxProbe) \cup {Path(s) : s \in SensorsPath}

PathShort == <<"d", "/", "n">>
PathsMixed == {Path(SensorXN), PathShort}

InitPath == InitDaemon(ObjectsPath, {"c1"})

NextPath ==
    \/ \E p \in Providers : registerProvider(p) /\ Log("registerProvider", "-", <<>>)
    \/ \E o \in ObjectsPath : addObject(o) /\ Log("addObject", "-", <<>>)
    \/ \E o \in ObjectsPath : removeObject(o) /\ Log("removeObject", "-", <<>>)
    \/ \E c \in ServicesCore, l \in SeqsUpTo(PathsMixed, MaxBatch) :
          subscribe(c, l) /\ Log("subscribe", c, l)
    \/ \E c \in ServicesCore, l \in SeqsUpTo(PathsMixed, 1) :
          unsubscribe(c, l) /\ Log("unsubscribe", c, l)
    \/ \E c \in ServicesCore : onServiceDisconnected(c) /\ Log("disconnect", c, <<>>)

SpecPath == InitPath /\ [][NextPath]_vars

-----------------------------------------------------------------------------
(* Properties of the dispatch scenario (Spec) *)

Flushed == lastOp.op = "sendFrame"

\* the value entries and the metadata entries of the messages sent to c
ValuesSent(c) ==
    LET ms == SelectSeq(outbox[c], LAMBDA m : m.signal = "newSensorData")
    IN IF ms = <<>> THEN <<>> ELSE ms[1].payload

MetaSent(c) ==
    LET ms == SelectSeq(outbox[c], LAMBDA m : m.signal = "sensorMetaDataChanged")
    IN IF ms = <<>> THEN <<>> ELSE ms[1].payload

Count(seq, e) == Cardinality({i \in 1..Len(seq) : seq[i] = e})

C3_UnsubscribedDetached ==
    \A c \in m_clients : \A s \in Sensors :
        Path(s) \notin DOMAIN m_subscribedSensors[c] => attached[c][s] = 0

\* C7: the value changes of subscribed properties between two flushes are sent in
\* one newSensorData message, in the order in which they occurred.
C7_OneDeltaInOrder ==
    Flushed =>
        \A c \in m_clients :
            /\ Len(SelectSeq(outbox[c], LAMBDA m : m.signal = "newSensorData")) <= 1
            /\ IsSubseq(flushed[c].noted, ValuesSent(c))

C7_Witness ==
    /\ Flushed
    /\ flushed["c1"].noted = <<<<PathA, 2>>, <<PathB, 1>>>>
    /\ ValuesSent("c1") = <<<<PathA, 2>>, <<PathB, 1>>>>

\* C8: a valid value notification of a subscribed property is pending until the
\* next flush, which sends it (as often as it was notified) and leaves both
\* accumulators empty, so that no later flush sends it again.
C8_FlushedExactlyOnce ==
    \A c \in m_clients :
        /\ \A i \in 1..Len(noted[c]) :
              Count(noted[c], noted[c][i]) <= Count(m_pendingUpdates[c], noted[c][i])
        /\ Flushed =>
              /\ \A i \in 1..Len(flushed[c].noted) :
                    Count(flushed[c].noted, flushed[c].noted[i])
                        <= Count(ValuesSent(c), flushed[c].noted[i])
              /\ m_pendingUpdates[c] = <<>>
              /\ m_pendingMetaDataChanges[c] = <<>>

C8_Witness ==
    /\ Flushed
    /\ flushed["c1"].noted = <<<<PathA, 1>>, <<PathA, 2>>>>
    /\ m_pendingUpdates["c1"] = <<>>

-----------------------------------------------------------------------------
(* Properties of the path-resolution scenario (SpecPath) *)

SensorPaths == {Path(s) : s \in RegisteredSensors}

Subscribing == lastOp'.op = "subscribe"

\* the number of entries of the request that resolve to the sensor s
Resolving(paths, s) == Cardinality({i \in 1..Len(paths) : findSensor(paths[i]) = s})

subscriptionVars == <<m_subscribedSensors, m_connections, attached, subscribers>>

\* C2 as stated: a subscribe request all of whose paths the consumer is already
\* subscribed to changes neither its subscribed set nor any refcount or listener.
C2_ResubscribeNoOp ==
    [][(/\ Subscribing
        /\ lastOp'.paths # <<>>
        /\ Range(lastOp'.paths) \subseteq DOMAIN m_subscribedSensors[lastOp'.client])
          => UNCHANGED subscriptionVars]_vars

\* C4 as stated: a path that is not the path of a property in the registry resolves
\* to no sensor, and a subscribe request for it leaves no subscription behind.
C4_UnknownPathNotFound ==
    \A p \in ProbePaths :
        p \notin SensorPaths =>
            /\ findSensor(p) = NULL
            /\ \A c \in m_clients : p \notin DOMAIN m_subscribedSensors[c]

\* C5: the path of every property in the registry resolves to that property; the
\* object id is what lies between the first and the last '/'.
C5_PathResolves ==
    \A s \in RegisteredSensors : findSensor(Path(s)) = s

C5_Witness ==
    /\ SensorXN \in RegisteredSensors
    /\ SensorX \in RegisteredSensors
    /\ lastOp.op = "subscribe"
    /\ Path(SensorXN) \in DOMAIN m_subscribedSensors["c1"]
    /\ m_subscribedSensors["c1"][Path(SensorXN)] = SensorXN

\* C6: a subscribe request subscribes the consumer to every path of the batch that
\* resolves, wherever it stands in the list, and does nothing for the others: each
\* sensor gains one reference and one listener set per entry resolving to it.
C6_BatchSkipsUnknown ==
    [][Subscribing =>
          LET c == lastOp'.client
              paths == lastOp'.paths
          IN /\ \A i \in 1..Len(paths) :
                   findSensor(paths[i]) # NULL =>
                      /\ paths[i] \in DOMAIN m_subscribedSensors'[c]
                      /\ m_subscribedSensors'[c][paths[i]] = findSensor(paths[i])
             /\ \A q \in DOMAIN m_subscribedSensors'[c] :
                   q \in DOMAIN m_subscribedSensors[c]
                   \/ (q \in Range(paths) /\ findSensor(q) # NULL)
             /\ \A s \in Sensors :
                   /\ subscribers'[s] = subscribers[s] + Resolving(paths, s)
                   /\ attached'[c][s] = attached[c][s] + Resolving(paths, s)]_vars

C6_Witness ==
    /\ lastOp.op = "subscribe"
    /\ lastOp.paths = <<PathShort, Path(SensorXN)>>
    /\ findSensor(PathShort) = NULL
    /\ DOMAIN m_subscribedSensors["c1"] = {Path(SensorXN)}
    /\ subscribers[SensorXN] = 1

-----------------------------------------------------------------------------
(* Properties of the metadata scenario (SpecMeta) *)

\* C9: a Client whose two accumulators are empty is sent nothing by the tick, a
\* value message is sent exactly when there are pending updates and a metadata
\* message exactly when there are pending metadata changes; none is ever empty.
C9_NoEmptyFrames ==
    [][lastOp'.op = "sendFrame" =>
          \A c \in m_clients :
             /\ (m_pendingUpdates[c] = <<>> /\ m_pendingMetaDataChanges[c] = <<>>)
                   => outbox'[c] = <<>>
             /\ \A i \in 1..Len(outbox'[c]) : outbox'[c][i].payload # <<>>
             /\ Len(outbox'[c]) = (IF m_pendingUpdates[c] = <<>> THEN 0 ELSE 1)
                                + (IF m_pendingMetaDataChanges[c] = <<>> THEN 0 ELSE 1)]_vars

C9_Witness ==
    /\ Flushed
    /\ "c1" \in m_clients
    /\ DOMAIN m_subscribedSensors["c1"] = {PathA, PathB}
    /\ outbox["c1"] = <<>>

\* C10: for a path whose last metadata change since the previous flush occurred
\* while the consumer was subscribed, the flush holds exactly one metadata entry,
\* with the metadata of that last change.
C10_MetaCoalesced ==
    Flushed =>
        \A c \in m_clients : \A p \in DOMAIN flushed[c].info :
            flushed[c].info[p].subscribed =>
                /\ Cardinality({i \in 1..Len(MetaSent(c)) : MetaSent(c)[i][1] = p}) = 1
                /\ Count(MetaSent(c), <<p, flushed[c].info[p].info>>) = 1

C10_Witness ==
    /\ Flushed
    /\ PathA \in DOMAIN flushed["c1"].info
    /\ flushed["c1"].info[PathA].several
    /\ flushed["c1"].info[PathA].subscribed
    /\ MetaSent("c1") = <<<<PathA, 1>>>>

-----------------------------------------------------------------------------
(* Properties of the registration and tick scenario (SpecTick) *)

Registered == Range(m_providers)

StepsOf(kind) == {i \in 1..Len(tick) : tick[i].step = kind}

\* C11 as stated: in a tick in which update() of one provider throws, every other
\* registered provider is refreshed and every client is flushed.
C11_FailureIsolated ==
    \A i \in StepsOf("throw") :
        /\ \A p \in Registered \ {tick[i].of} :
              \E j \in StepsOf("update") : tick[j].of = p
        /\ \A c \in m_clients :
              \E j \in StepsOf("sendFrame") : tick[j].of = c

\* C12: the steps of a tick are the updates of the providers, in registration
\* order, followed by the flushes: a client is flushed only after every registered
\* provider was refreshed, a tick that completes flushes every client once, and
\* what the providers set in the tick is in the messages of that tick.
C12_PollThenDispatch ==
    /\ \A i \in StepsOf("update") \cup StepsOf("throw") :
          i <= Len(m_providers) /\ tick[i].of = m_providers[i]
    /\ \A j \in StepsOf("sendFrame") :
          /\ j > Len(m_providers)
          /\ \A k \in 1..Len(m_providers) : tick[k] = [step |-> "update", of |-> m_providers[k]]
    /\ (tick # <<>> /\ ~Terminated) =>
          /\ Len(tick) = Len(m_providers) + Cardinality(m_clients)
          /\ \A c \in m_clients :
                /\ Cardinality({j \in StepsOf("sendFrame") : tick[j].of = c}) = 1
                /\ IsSubseq(flushed[c].noted, ValuesSent(c))

C12_Witness ==
    /\ tick = <<[step |-> "update", of |-> "P2"], [step |-> "update", of |-> "P1"],
                [step |-> "sendFrame", of |-> "c1"]>>
    /\ ValuesSent("c1") = <<<<PathA, 1>>>>
    /\ m_pendingUpdates["c1"] = <<>>

\* C13: registering a provider whose name a registered provider has changes
\* neither the list of providers, nor the index of containers, nor the set of
\* containers whose objectAdded / objectRemoved signals are connected.
C13_DuplicateRejected ==
    [][(/\ lastOp'.op = "registerProvider"
        /\ \E q \in Registered : providerName(q) = providerName(lastOp'.client))
          => /\ UNCHANGED <<m_providers, m_containers>>
             /\ {k \in ContainersTick : Connected(k)}' = {k \in ContainersTick : Connected(k)}]_vars

C13_Witness ==
    /\ lastOp.op = "registerProvider"
    /\ lastOp.client = "P3"
    /\ m_providers = <<"P1", "P2">>

\* the container that was registered first under an id
FirstRegistered(id) ==
    LET ks == [i \in 1..Len(m_providers) |-> containersOf(m_providers[i])[1]]
        first == CHOOSE i \in 1..Len(ks) :
                    /\ ContainerId(ks[i]) = id
                    /\ \A j \in 1..(i - 1) : ContainerId(ks[j]) # id
    IN ks[first]

\* C14 as stated: every indexed container id maps to the container that was
\* registered first under it.
C14_ContainerIdsUnique ==
    \A id \in DOMAIN m_containers : m_containers[id] = FirstRegistered(id)

-----------------------------------------------------------------------------
(* Properties of the object lifecycle scenario (SpecLife) *)

\* C15: when an object is removed from its container, the paths of its properties
\* are no longer among the paths of allSensors and no longer in the subscribed set
\* of any consumer.
C15_RemovedObjectDropped ==
    [][lastOp'.op = "removeObject" =>
          \A o \in sensorObjects \ sensorObjects' : \A s \in SensorsOf(o) :
             /\ Path(s) \notin SensorPaths'
             /\ \A c \in m_clients : Path(s) \notin DOMAIN m_subscribedSensors'[c]]_vars

C15_Witness ==
    /\ lastOp.op = "removeObject"
    /\ "O1" \notin sensorObjects
    /\ m_clients = {"c1"}
    /\ DOMAIN m_subscribedSensors["c1"] = {PathB}
    /\ attached["c1"][SensorA] = 1

\* C16 as stated: after the only consumer has disconnected, no property has a
\* subscriber left and no listener of the consumer is attached.
C16_DisconnectReleasesAll ==
    lastOp.op = "disconnect" =>
        \A s \in Sensors : subscribers[s] = 0 /\ attached[lastOp.client][s] = 0

\* C20 as stated: a flush holds no entry for a property of a removed object other
\* than for the changes that were notified while the consumer was subscribed.
C20_RemovedObjectSilent ==
    Flushed =>
        \A c \in m_clients : \A s \in Sensors :
            s[1] \notin sensorObjects =>
                /\ \A i \in 1..Len(ValuesSent(c)) :
                      ValuesSent(c)[i][1] = Path(s) =>
                         Count(ValuesSent(c), ValuesSent(c)[i])
                            <= Count(flushed[c].noted, ValuesSent(c)[i])
                /\ Path(s) \in KeysOf(MetaSent(c)) =>
                      /\ Path(s) \in DOMAIN flushed[c].info
                      /\ flushed[c].info[Path(s)].subscribed

\* C17: an unsubscribe request from a sender that has no Client, or none of whose
\* paths the consumer is subscribed to, changes no subscription, no refcount, no
\* listener and no pending list, and creates no Client.
C17_UnsubscribeIdempotent ==
    [][(/\ lastOp'.op = "unsubscribe"
        /\ \/ lastOp'.client \notin m_clients
           \/ Range(lastOp'.paths) \cap DOMAIN m_subscribedSensors[lastOp'.client] = {})
          => UNCHANGED <<subscriptionVars, m_clients, m_pendingUpdates,
                         m_pendingMetaDataChanges>>]_vars

C17_Witness ==
    /\ lastOp.op = "unsubscribe"
    /\ lastOp.paths = <<PathShort>>
    /\ findSensor(PathShort) # NULL
    /\ m_clients = {"c1"}
    /\ DOMAIN m_subscribedSensors["c1"] = {Path(SensorXN)}
    /\ subscribers[SensorXN] = 1
    /\ subscribers[SensorN] = 0

-----------------------------------------------------------------------------
(* Properties of the current-values scenario (SpecData) *)

\* a path that resolves to a property with a valid value
HasValue(path) == findSensor(path) # NULL /\ value[findSensor(path)] # NoValue

\* the requested paths that have a value, in the order of the request
Answered(paths) == SelectSeq(paths, HasValue)

\* every path of the list paired with the value of the property it resolves to
WithValue(paths) == [j \in 1..Len(paths) |-> <<paths[j], value[findSensor(paths[j])]>>]

\* C18: a sensorData call answers with one (path, value) entry per requested
\* path that resolves to a property with a valid value, in the order of the
\* request and under the requested path, leaves every other path out, and
\* changes no registry, sensor, subscription or pending state
C18_CurrentValues ==
    [][lastOp'.op = "sensorData" =>
          /\ reply' = WithValue(Answered(lastOp'.paths))
          /\ UNCHANGED <<registryVars, sensorVars, clientVars, pendingVars>>]_vars

\* a request that names a path that does not resolve and then a sensor with a
\* value, asked while a consumer is subscribed and has an update pending
C18_Witness ==
    /\ lastOp.op = "sensorData"
    /\ lastOp.paths = <<PathBad, PathB>>
    /\ findSensor(PathBad) = NULL
    /\ reply = <<<<PathB, 1>>>>
    /\ m_subscribedSensors["c1"] # EmptyMap
    /\ m_pendingUpdates["c1"] # <<>>

-----------------------------------------------------------------------------
(* Properties of the disks scenario (SpecDisk) *)

\* the values a read of the aggregate sensors of the object "all" gives
allTotal == aggregateValue(sensorObjects, value, PropTotal)
allUsed == aggregateValue(sensorObjects, value, PropUsed)
allUsedPercent == percentageValue(allUsed, info[<<AllDisks, PropUsed>>])

\* the volumes sda1 and sdb1 are in the container with the values of the scenario
TwoVolumes ==
    /\ {"sda1", "sdb1"} \subseteq sensorObjects
    /\ value[<<"sda1", PropTotal>>] = 1000 /\ value[<<"sda1", PropUsed>>] = 400
    /\ value[<<"sdb1", PropTotal>>] = 2000 /\ value[<<"sdb1", PropUsed>>] = 500

StartsWithAll(id) == Len(id) >= 3 /\ id[1] = "a" /\ id[2] = "l" /\ id[3] = "l"

\* C19: with the volumes sda1 (total 1000, used 400) and sdb1 (total 2000, used
\* 500) in the disk container, and whatever objects whose id starts with "all",
\* the aggregate "all" has total 3000 and used 900, the maximum of used is the
\* total, and usedPercent is 30
C19_DiskAggregate ==
    (TwoVolumes /\ \A o \in sensorObjects : o \in {"sda1", "sdb1"} \/ StartsWithAll(ObjectId(o)))
       => /\ allTotal = 3000
          /\ allUsed = 900
          /\ info[<<AllDisks, PropUsed>>] = allTotal
          /\ allUsedPercent = 30

\* the two volumes have their values, a volume whose label starts with "all" is
\* mounted and has delivered as well, and a fourth volume has been mounted and
\* unmounted again
C19_Witness ==
    /\ TwoVolumes
    /\ sensorObjects = DiskObjects \ {"sdc1"}
    /\ value[<<"allx", PropUsed>>] = 400
    /\ value[<<"sdc1", PropUsed>>] = 400
    /\ lastOp.op = "deviceRemoved"
    /\ allUsedPercent = 30

-----------------------------------------------------------------------------
(* Properties of the reference counts *)

\* the (consumer, path) entries of the subscribed sets that refer to the sensor
EntriesOf(s) ==
    {e \in Services \X UNION {DOMAIN m_subscribedSensors[c] : c \in Services} :
        /\ e[2] \in DOMAIN m_subscribedSensors[e[1]]
        /\ m_subscribedSensors[e[1]][e[2]] = s}

\* C21: the subscriber count of every property of the registry is the number of
\* (consumer, path) entries of the subscribed sets that refer to it, hence 0 when
\* no consumer is subscribed to it
C21_RefcountMatchesEntries ==
    \A s \in RegisteredSensors : subscribers[s] = Cardinality(EntriesOf(s))

-----------------------------------------------------------------------------
(* Properties of the gpu scenario (SpecGpu) *)

\* the helper process runs and has not been asked to terminate
HelperActive == plugin.state = "Running" /\ ~plugin.sigterm

\* C22: the helper process is active exactly while the subscriber count of the
\* device is greater than 0
C22_HelperWhileSubscribed ==
    HelperActive <=> objectSubscribed(subscribers, IntelGpu)

-----------------------------------------------------------------------------
(* The notification scenario: providers register, one of them under a name   *)
(* that is taken, and the first provider adds and removes its objects.       *)

ProvidersNotify == {"P1", "P2", "P3"}
ObjectsNotify == {"O1", "O2"}

InitNotify == InitDaemon(ObjectsNotify, {"c1"})

NextNotify ==
    \/ \E p \in ProvidersNotify :
          /\ Len(m_providers) < Cardinality(ProvidersNotify)
          /\ registerProvider(p) /\ Log("registerProvider", p, <<>>)
    \/ \E o \in ObjectsNotify : addObject(o) /\ Log("addObject", "-", <<>>)
    \/ \E o \in ObjectsNotify : removeObject(o) /\ Log("removeObject", "-", <<>>)
    \/ \E c \in ServicesCore :
          /\ PathA \notin DOMAIN m_subscribedSensors[c]
          /\ subscribe(c, <<PathA>>) /\ Log("subscribe", c, <<>>)

SpecNotify == InitNotify /\ [][NextNotify]_vars

\* the provider of the container of object o is in m_providers
ProviderRegistered(o) ==
    \E i \in 1..Len(m_providers) : m_providers[i] = ContainerProvider(ObjectContainer(o))

\* one signal for each property path of object o
OncePerPath(signal, o) ==
    {[signal |-> signal, path |-> Path(s), times |-> 1] : s \in SensorsOf(o)}

\* C26: when an object joins a container of a registered provider the Daemon
\* emits sensorAdded exactly once for each property path of the object and
\* nothing else, when it leaves sensorRemoved exactly once for each path; for
\* an object of a provider that is not registered (a rejected duplicate) the
\* Daemon emits nothing.
C26_SignalOncePerPath ==
    [][\A o \in ObjectsNotify :
          /\ o \in sensorObjects' \ sensorObjects =>
                emitted' = IF ProviderRegistered(o)
                           THEN OncePerPath("sensorAdded", o) ELSE NoSignals
          /\ o \in sensorObjects \ sensorObjects' =>
                emitted' = IF ProviderRegistered(o)
                           THEN OncePerPath("sensorRemoved", o) ELSE NoSignals]_vars

\* an object of a registered provider left its container, with a provider of
\* a taken name around, and the signals went out
C26_Witness ==
    /\ lastOp.op = "removeObject"
    /\ Len(m_providers) > 1
    /\ \E o \in ObjectsNotify : emitted = OncePerPath("sensorRemoved", o)

-----------------------------------------------------------------------------
(* NetworkPlugin: the choice of the backend in the constructor, and update() *)

NoBackend == 0

\* the members of the plugin when the constructor reaches the loop: supported[i]
\* is what isSupported() of the backend of the i-th creation function answers
NetworkMembers(supported) ==
    [backendFunctions |-> supported,
     pc |-> "loop",
     func |-> 1,                \* the creation function the loop is at
     created |-> <<>>,          \* the backends created so far, in order
     alive |-> {},              \* the backends created and not deleted
     backend |-> NoBackend,     \* d->backend
     started |-> {},            \* the backends whose start() was called
     updates |-> 0]             \* the calls of d->backend->update()

tryBackend_noBreak(members) ==
    LET i == members.func
    IN IF i > Len(members.backendFunctions) THEN [members EXCEPT !.pc = "after"]
       ELSE IF members.backendFunctions[i]
            THEN [members EXCEPT !.created = Append(@, i), !.alive = @ \cup {i},
                                 !.backend = i, !.func = i + 1]
            ELSE [members EXCEPT !.created = Append(@, i), !.func = i + 1]

\* one pass of the loop over backendFunctions, or its end
tryBackend(members) ==
    LET i == members.func
    IN IF i > Len(members.backendFunctions) THEN [members EXCEPT !.pc = "after"]
       ELSE IF members.backendFunctions[i]
            THEN [members EXCEPT !.created = Append(@, i), !.alive = @ \cup {i},
                                 !.backend = i, !.pc = "after"]
            ELSE [members EXCEPT !.created = Append(@, i), !.func = i + 1]

\* the constructor after the loop
startBackend(members) ==
    IF members.backend = NoBackend THEN [members EXCEPT !.pc = "constructed"]
    ELSE [members EXCEPT !.started = @ \cup {members.backend}, !.pc = "constructed"]

\* NetworkPlugin::update
NetworkPlugin_update(members) ==
    IF members.backend # NoBackend THEN [members EXCEPT !.updates = @ + 1]
    ELSE members

\* a step of the plugin that touches nothing outside it
pluginStep(members) ==
    /\ plugin' = members
    /\ Silent
    /\ UNCHANGED <<registryVars, sensorVars, clientVars, pendingVars>>

networkLoop == plugin.pc = "loop" /\ pluginStep(tryBackend(plugin))

networkStart == plugin.pc = "after" /\ pluginStep(startBackend(plugin))

networkUpdate ==
    /\ plugin.pc = "constructed"
    /\ plugin.updates < MaxPolls
    /\ pluginStep(NetworkPlugin_update(plugin))

InitNetwork ==
    /\ m_providers = <<>>
    /\ m_containers = EmptyMap
    /\ sensorObjects = {}
    /\ value = [s \in SensorsOf("O1") |-> NoValue]
    /\ info = [s \in SensorsOf("O1") |-> 1]
    /\ InitClients(SensorsOf("O1"), {"c1"})
    /\ \E n \in 0..MaxBackends : \E supported \in [1..n -> BOOLEAN] :
          plugin = NetworkMembers(supported)

NextNetwork ==
    \/ networkLoop /\ Log("NetworkPlugin", "-", <<>>)
    \/ networkStart /\ Log("start", "-", <<>>)
    \/ networkUpdate /\ Log("update", "-", <<>>)

SpecNetwork == InitNetwork /\ [][NextNetwork]_vars

\* the creation functions whose backend answers that it is supported
Supported == {i \in DOMAIN plugin.backendFunctions : plugin.backendFunctions[i]}

\* C27: the constructed plugin has at most one backend: the first candidate in
\* the order of backendFunctions that is supported. It was started, it is the
\* only backend left alive, the candidates before it were created in order and
\* deleted, and none after it was created. When no candidate is supported no
\* backend is kept, alive or started, and update() calls no backend.
C27_FirstSupportedBackend ==
    plugin.pc = "constructed" =>
       IF Supported = {}
       THEN /\ plugin.backend = NoBackend
            /\ plugin.alive = {}
            /\ plugin.started = {}
            /\ plugin.updates = 0
       ELSE /\ plugin.backend \in Supported
            /\ \A i \in Supported : plugin.backend <= i
            /\ plugin.alive = {plugin.backend}
            /\ plugin.started = {plugin.backend}
            /\ plugin.created = [i \in 1..plugin.backend |-> i]

\* the second candidate of three was kept, with a supported one behind it, and polled
C27_Witness ==
    /\ plugin.pc = "constructed"
    /\ Len(plugin.backendFunctions) = 3
    /\ Supported = {2, 3}
    /\ plugin.backend = 2
    /\ plugin.updates > 0

-----------------------------------------------------------------------------
(* UsageComputer::setTicks. The counters are unsigned integers; the model    *)
(* keeps the wrap-around of their arithmetic at a width of 8 bits.           *)

TickModulus == 256

\* the tick counters the scenario reads
TickValues == 0..2

\* unsigned subtraction and addition
Minus(a, b) == (a - b) % TickModulus
Plus(a, b) == (a + b) % TickModulus

Max(a, b) == IF a >= b THEN a ELSE b

\* the lambda percentage of setTicks, rounded down
percentage(totalDiff, tickDiff) ==
    IF tickDiff > 0 /\ totalDiff > 0 THEN (100 * tickDiff) \div totalDiff ELSE 0

UsageComputer_setTicks(members, system, user, wait, idle) ==
    LET systemDiff == Max(Minus(system, members.m_systemTicks), 0)
        userDiff == Max(Minus(user, members.m_userTicks), 0)
        waitDiff == Max(Minus(wait, members.m_waitTicks), 0)
        totalTicks == Plus(Plus(Plus(system, user), wait), idle)
        totalDiff == Max(Minus(totalTicks, members.m_totalTicks), 0)
    IN [systemUsage |-> percentage(totalDiff, systemDiff),
        userUsage |-> percentage(totalDiff, userDiff),
        waitUsage |-> percentage(totalDiff, waitDiff),
        totalUsage |-> percentage(totalDiff, Plus(Plus(systemDiff, userDiff), waitDiff)),
        m_totalTicks |-> totalTicks,
        m_systemTicks |-> system,
        m_userTicks |-> user,
        m_waitTicks |-> wait]

setTicks(system, user, wait, idle) ==
    pluginStep(UsageComputer_setTicks(plugin, system, user, wait, idle))

\* a UsageComputer that has seen no counters yet
InitUsage ==
    /\ m_providers = <<>>
    /\ m_containers = EmptyMap
    /\ sensorObjects = {}
    /\ value = [s \in SensorsOf("O1") |-> NoValue]
    /\ info = [s \in SensorsOf("O1") |-> 1]
    /\ InitClients(SensorsOf("O1"), {"c1"})
    /\ plugin = [systemUsage |-> 0, userUsage |-> 0, waitUsage |-> 0, totalUsage |-> 0,
                 m_totalTicks |-> 0, m_systemTicks |-> 0, m_userTicks |-> 0,
                 m_waitTicks |-> 0]

NextUsage ==
    \E system \in TickValues, user \in TickValues, wait \in TickValues, idle \in TickValues :
       setTicks(system, user, wait, idle) /\ Log("setTicks", "-", <<>>)

SpecUsage == InitUsage /\ [][NextUsage]_vars

\* C28: after any sequence of setTicks calls, with counters that may go
\* backwards, systemUsage, userUsage, waitUsage and totalUsage are each
\* between 0 and 100.
C28_UsageWithinHundred ==
    /\ plugin.systemUsage \in 0..100
    /\ plugin.userUsage \in 0..100
    /\ plugin.waitUsage \in 0..100
    /\ plugin.totalUsage \in 0..100

-----------------------------------------------------------------------------
(* Properties of the Client's two maps and of the set of Clients *)

\* the sensors for which Client c stores connections
ConnectedSensors(c) == {s \in Sensors : m_connections[c][s] > 0}

\* C29: for every Client, the sensors it stores listener connections for
\* (m_connections) are exactly the sensors its subscribed-path map
\* (m_subscribedSensors) refers to.
C29_ConnectionsMatchSubscribed ==
    \A c \in m_clients : ConnectedSensors(c) = Range(m_subscribedSensors[c])

\* the step is the call of handler op for the service c
IsCall(op, c) == lastOp'.op = op /\ lastOp'.client = c

\* C30: a service has a Client exactly from its first subscribe call, also one
\* whose paths do not resolve, until it disconnects: subscribe leaves the
\* caller with a Client, the disconnect of a service leaves it without one, no
\* other step creates or deletes a Client, and a service without a Client is
\* sent no frame.
C30_ClientWhileConnected ==
    [][\A c \in Services :
          /\ IsCall("subscribe", c) => c \in m_clients'
          /\ IsCall("disconnect", c) => c \notin m_clients'
          /\ ~IsCall("subscribe", c) /\ ~IsCall("disconnect", c) =>
                (c \in m_clients' <=> c \in m_clients)
          /\ c \notin m_clients' => outbox'[c] = <<>>]_vars

\* the first subscribe of a service named a path that does not resolve: the
\* service has a Client that is subscribed to nothing
C30_Witness ==
    /\ lastOp.op = "subscribe"
    /\ lastOp.client \in m_clients
    /\ m_subscribedSensors[lastOp.client] = EmptyMap
    /\ \A s \in Sensors : m_connections[lastOp.client][s] = 0

-----------------------------------------------------------------------------
(* The quit scenario: two services come and go, the option is switched *)

InitQuit ==
    /\ m_providers = <<"P1">>
    /\ m_containers = indexContainers(EmptyMap, containersOf("P1"))
    /\ sensorObjects = ObjectsCore
    /\ InitRest(ObjectsCore, {"c1", "c2"})

NextQuit ==
    \/ \E c \in Services, p \in {PathA, PathBad} :
          /\ p \notin DOMAIN m_subscribedSensors[c]
          /\ subscribe(c, <<p>>) /\ Log("subscribe", c, <<>>)
    \/ \E c \in Services :
          unsubscribe(c, <<PathA>>) /\ Log("unsubscribe", c, <<>>)
    \/ \E c \in Services : onServiceDisconnected(c) /\ Log("disconnect", c, <<>>)
    \/ \E quit \in BOOLEAN :
          setQuitOnLastClientDisconnect(quit) /\ Log("setQuit", "-", <<>>)
    \/ sensorSetValue(SensorA, 1) /\ Log("setValue", "-", <<>>)
    \/ sendFrame(<<>>) /\ Log("sendFrame", "-", <<>>)

SpecQuit == InitQuit /\ [][NextQuit]_vars

\* C31: the daemon asks the application to quit only in the handler of a
\* service disconnect, only with quit-on-last-client-disconnect enabled and
\* only when no Client is left after that disconnect.
C31_QuitOnlyAfterLastClient ==
    quitRequested =>
       /\ lastOp.op = "disconnect"
       /\ m_quitOnLastClientDisconnect
       /\ m_clients = {}

\* the service c2 went away with the option enabled, no Client was left and
\* the daemon asked to quit
C31_Witness ==
    /\ quitRequested
    /\ lastOp.op = "disconnect"
    /\ lastOp.client = "c2"
    /\ m_clients = {}

-----------------------------------------------------------------------------
(* DisksPlugin: the device map under the events of the device notifier. A    *)
(* VolumeObject is a record of its udi, its block device and its mount point, *)
(* numbered in the order of creation.                                        *)

\* the udis of the storage devices, and the block device of each
Udis == {"D1", "D2"}
blockDevice(udi) == IF udi = "D1" THEN "/dev/sda1" ELSE "/dev/sdb1"

\* what access->filePath() can answer; the empty path means not accessible
NoFilePath == ""
FilePaths == {"/a", "/b"}

\* the plugin after the constructor found no storage device
DeviceMembers ==
    [m_volumesByDevice |-> <<>>,   \* block device -> VolumeObject
     container |-> {},             \* the VolumeObjects in the container "disk"
     listening |-> {},             \* the udis with an accessibilityChanged listener
     created |-> 0]                \* the VolumeObjects created so far

\* DisksPlugin::createAccessibleVolumeObject on the device map: QHash::insert
\* replaces the value of a key that is present
createVolume(members, udi, mountPoint) ==
    LET hasMountPoint ==
            \E k \in DOMAIN members.m_volumesByDevice :
                members.m_volumesByDevice[k].mountPoint = mountPoint
        volume == [serial |-> members.created + 1, udi |-> udi,
                   device |-> blockDevice(udi), mountPoint |-> mountPoint]
    IN IF hasMountPoint THEN members
       ELSE [members EXCEPT !.m_volumesByDevice = Put(@, blockDevice(udi), volume),
                            !.container = @ \cup {volume},
                            !.created = @ + 1]

\* the find_if by udi of both listeners, removeObject and erase
eraseVolume(members, udi) ==
    LET found == {k \in DOMAIN members.m_volumesByDevice :
                     members.m_volumesByDevice[k].udi = udi}
    IN IF found = {} THEN members
       ELSE LET k == CHOOSE x \in found : TRUE
            IN [members EXCEPT
                   !.container = @ \ {members.m_volumesByDevice[k]},
                   !.m_volumesByDevice =
                       [x \in (DOMAIN members.m_volumesByDevice) \ {k} |->
                           members.m_volumesByDevice[x]]]

\* DisksPlugin::addDevice for a volume of a hard disk that is not ignored
addDevice(udi, filePath) ==
    LET made == IF filePath # NoFilePath THEN createVolume(plugin, udi, filePath)
                ELSE plugin
    IN /\ made.created <= MaxVolumes
       /\ pluginStep([made EXCEPT !.listening = @ \cup {udi}])

\* the accessibilityChanged listener that addDevice connects
accessibilityChanged(accessible, udi, filePath) ==
    LET after == IF accessible THEN createVolume(plugin, udi, filePath)
                 ELSE eraseVolume(plugin, udi)
    IN /\ udi \in plugin.listening
       /\ accessible => filePath # NoFilePath
       /\ after.created <= MaxVolumes
       /\ pluginStep(after)

\* the deviceRemoved listener of the constructor
storageRemoved(udi) == pluginStep(eraseVolume(plugin, udi))

InitDevices ==
    /\ m_providers = <<>>
    /\ m_containers = EmptyMap
    /\ sensorObjects = {}
    /\ value = [s \in SensorsOf("O1") |-> NoValue]
    /\ info = [s \in SensorsOf("O1") |-> 1]
    /\ InitClients(SensorsOf("O1"), {"c1"})
    /\ plugin = DeviceMembers

NextDevices ==
    \/ \E udi \in Udis, filePath \in FilePaths \cup {NoFilePath} :
          addDevice(udi, filePath) /\ Log("deviceAdded", udi, <<>>)
    \/ \E udi \in Udis, filePath \in FilePaths :
          accessibilityChanged(TRUE, udi, filePath) /\ Log("accessible", udi, <<>>)
    \/ \E udi \in Udis :
          accessibilityChanged(FALSE, udi, NoFilePath) /\ Log("inaccessible", udi, <<>>)
    \/ \E udi \in Udis : storageRemoved(udi) /\ Log("deviceRemoved", udi, <<>>)

SpecDevices == InitDevices /\ [][NextDevices]_vars

\* no two VolumeObjects of the device map have the same mount point
DistinctMountPoints ==
    \A k1, k2 \in DOMAIN plugin.m_volumesByDevice :
        k1 # k2 =>
           plugin.m_volumesByDevice[k1].mountPoint # plugin.m_volumesByDevice[k2].mountPoint

\* C32: no two VolumeObjects of the device map have the same mount point, and
\* every VolumeObject in the container is the one the device map stores under
\* its block device.
C32_TrackedVolumesKeepTheirKey ==
    /\ DistinctMountPoints
    /\ \A volume \in plugin.container :
          /\ volume.device \in DOMAIN plugin.m_volumesByDevice
          /\ plugin.m_volumesByDevice[volume.device] = volume

-----------------------------------------------------------------------------
(* Properties of the disks plugin under the tick *)

\* the volumes of the device map that someone listens to
Listening == {o \in plugin.volumes : isSubscribed(o)}

\* the step is Daemon::sendFrame
IsTick == tick' # NoTick

\* C23: DisksPlugin::update does no work when nobody listens: with no
\* subscribed volume in the device map the tick starts no free-space job, leaves
\* the elapsed timer and every byte counter and every sensor value as they
\* were; otherwise it starts one job for each subscribed volume of the map and
\* none for any other volume.
C23_NoWorkUnheard ==
    [][IsTick =>
          /\ Listening = {} => plugin' = plugin /\ value' = value
          /\ \A o \in DiskVolumes :
                plugin'.jobs[o] = plugin.jobs[o] + (IF o \in Listening THEN 1 ELSE 0)]_vars

\* a tick found volumes but no listener, after an earlier tick had started
\* the timer and time had passed
C23_Witness ==
    /\ tick # NoTick
    /\ plugin.volumes # {}
    /\ Listening = {}
    /\ plugin.timer = "aged"

\* the volumes that left the device map
Untracked == DiskVolumes \ plugin.volumes

Carries(messages, s, v) ==
    \E i \in 1..Len(messages) :
        /\ messages[i].signal = "newSensorData"
        /\ <<Path(s), v>> \in Range(messages[i].payload)

\* a result for the used space of volume o waits for consumer c, who listens
ResultWaits(c, o) ==
    /\ IsSubscribed(c, <<o, PropUsed>>)
    /\ <<Path(<<o, PropUsed>>), value[<<o, PropUsed>>]>> \in Range(noted[c])

\* C25: the result of a free-space job that arrived since the last tick is in
\* the frame the next tick sends to the consumers subscribed to it, and a job
\* that ends with an error changes no value and no maximum.
C25_ResultInNextFrame ==
    [][/\ IsTick =>
             \A c \in m_clients, o \in DiskVolumes :
                ResultWaits(c, o) =>
                   Carries(outbox'[c], <<o, PropUsed>>, value[<<o, PropUsed>>])
       /\ lastOp'.op = "jobError" => value' = value /\ info' = info]_vars

\* a tick sent the result of a job to the consumer
C25_Witness ==
    /\ tick # NoTick
    /\ \E o \in DiskVolumes :
          /\ value[<<o, PropUsed>>] \in {res[1] - res[2] : res \in JobResults(o)}
          /\ Carries(outbox["c1"], <<o, PropUsed>>, value[<<o, PropUsed>>])

====
